---------------------------- MODULE Spec2Model ----------------------------
(***************************************************************************)
(* A model of the semantic core of the Mamba front-end: the type algebra   *)
(* (mamba/sema/types.py), the typing constraints (mamba/sema/constraint.py)*)
(* and the backtracking constraint solver                                  *)
(* (mamba/sema/constraint_solver.py).                                      *)
(*                                                                         *)
(* Python objects are compared by identity everywhere in the solver        *)
(* (`a is b`, dict keys without __eq__/__hash__), so every type object     *)
(* lives in a heap `types` and is named by its identifier; substitution    *)
(* dicts live in a heap `dicts` and are named by their index, so that      *)
(* copying and sharing a dict are different things in the model too.       *)
(***************************************************************************)
EXTENDS Integers, Sequences, FiniteSets, TLC

VARIABLES
    types,     \* heap of type objects: identifier -> type record
    cons,      \* the Constraint objects of the run: index -> constraint record
    solvers,   \* the ConstraintSolver objects created so far (index = identity)
    dicts,     \* heap of substitution dicts (ConstraintSolver.solution refers into it)
    stack,     \* the running generator frames of solutions(), innermost last
    results,   \* the items the consumer of the top-level iterator has received
    outcome,   \* "running", "done", or the class of the exception that escaped
    fn         \* harness record of the pure-function specifications

vars == <<types, cons, solvers, dicts, stack, results, outcome, fn>>

(***************************************************************************)
(* Bounds of the model.                                                    *)
(***************************************************************************)
\* Longest constraint list handed to the top-level solver.
MaxConstraints == 3
\* Depth at which a runaway Python recursion is cut (stands for the
\* interpreter's recursion limit; every terminating recursion over the
\* types below is shallower).
RecursionLimit == 8

(***************************************************************************)
(* The type algebra (types.py).                                            *)
(***************************************************************************)
NoType == ""

BlankType ==
    [tag |-> "", name |-> "", dom |-> NoType, cod |-> NoType,
     props |-> <<>>, members |-> <<>>, placeholders |-> <<>>]

GroundType(n) == [BlankType EXCEPT !.tag = "ground", !.name = n]

TypeVariable == [BlankType EXCEPT !.tag = "var"]

TypePlaceholder(n) == [BlankType EXCEPT !.tag = "placeholder", !.name = n]

\* properties: sequence of <<name, type id>> in insertion order (a Python dict).
ObjectType(properties, phs) ==
    [BlankType EXCEPT !.tag = "obj", !.props = properties, !.placeholders = phs]

UnionType(ts) == [BlankType EXCEPT !.tag = "union", !.members = ts]

FunctionType(domain, codomain, phs) ==
    [BlankType EXCEPT !.tag = "fun", !.dom = domain, !.cod = codomain,
                      !.placeholders = phs]

IsVar(h, t) == h[t].tag = "var"
IsFun(h, t) == h[t].tag = "fun"
IsObj(h, t) == h[t].tag = "obj"

\* ObjectType.__len__, __iter__ (property names in order), __contains__ (through
\* __iter__) and __getitem__.
ObjLen(h, t) == Len(h[t].props)
PropNames(h, t) == [i \in 1..Len(h[t].props) |-> h[t].props[i][1]]
HasProp(h, t, p) == \E i \in 1..Len(h[t].props) : h[t].props[i][1] = p
PropType(h, t, p) ==
    h[t].props[CHOOSE i \in 1..Len(h[t].props) : h[t].props[i][1] = p][2]

\* getattr(b, 'placeholders', None): ground types, variables, placeholders and
\* unions have no such attribute; functions and objects carry a list.
Placeholders(h, t) ==
    IF h[t].tag \in {"fun", "obj"} THEN h[t].placeholders ELSE <<>>

(***************************************************************************)
(* The type objects the constraints of the model are built from.  Int and  *)
(* Float are the module-level singletons of types.py; the others stand for *)
(* the objects the inference pass creates.                                 *)
(***************************************************************************)
TypeArena ==
    ("Int"    :> GroundType("Int")) @@
    ("Float"  :> GroundType("Float")) @@
    ("v1"     :> TypeVariable) @@
    ("v2"     :> TypeVariable) @@
    ("v3"     :> TypeVariable) @@
    ("FvI"    :> FunctionType("v1", "Int", <<>>)) @@
    ("FII"    :> FunctionType("Int", "Int", <<>>)) @@
    ("FIF"    :> FunctionType("Int", "Float", <<>>)) @@
    ("OX"     :> ObjectType(<< <<"x", "Int">> >>, <<>>)) @@
    ("OX2"    :> ObjectType(<< <<"x", "Int">> >>, <<>>)) @@
    ("OXY"    :> ObjectType(<< <<"x", "Int">>, <<"y", "Float">> >>, <<>>)) @@
    ("OXv"    :> ObjectType(<< <<"x", "v1">> >>, <<>>)) @@
    ("O0"     :> ObjectType(<< <<"_0", "Int">> >>, <<>>)) @@
    ("Object" :> ObjectType(<<>>, <<>>)) @@
    ("UvI"    :> UnionType(<<"v1", "Int">>)) @@
    ("T"      :> TypePlaceholder("T")) @@
    ("GTT"    :> FunctionType("T", "T", <<"T">>)) @@
    ("FII2"   :> FunctionType("Int", "Int", <<>>)) @@
    ("OF"     :> ObjectType(<< <<"f", "FII">> >>, <<>>)) @@
    ("OF2"    :> ObjectType(<< <<"f", "FII2">> >>, <<>>)) @@
    ("ON"     :> ObjectType(<< <<"n", "OX">> >>, <<>>)) @@
    ("ON2"    :> ObjectType(<< <<"n", "OX2">> >>, <<>>)) @@
    ("OS"     :> ObjectType(<< <<"s", "Object">> >>, <<>>)) @@
    ("L1"     :> ObjectType(<< <<"next", "v1">> >>, <<>>)) @@
    ("L2"     :> ObjectType(<< <<"next", "v2">> >>, <<>>))

TypeIds == DOMAIN TypeArena
TypeVars == {t \in TypeIds : TypeArena[t].tag = "var"}

(***************************************************************************)
(* Substitutions.  A substitution is a Python dict from type variables to  *)
(* types: a function whose domain is the set of bound variables.           *)
(***************************************************************************)
EmptySolution == <<>>

\* self.solution[v] = t
Bind(sol, v, t) == [k \in DOMAIN sol \cup {v} |-> IF k = v THEN t ELSE sol[k]]

\* What a recursion that never returns produces: Python raises RecursionError.
Diverged == "<RecursionError>"

\* ConstraintSolver.walk: follows the chain of bindings from a variable.
RECURSIVE Walk(_, _, _, _)
Walk(h, sol, ty, fuel) ==
    IF ~IsVar(h, ty) THEN ty
    ELSE IF ty \in DOMAIN sol
         THEN IF fuel = 0 THEN Diverged ELSE Walk(h, sol, sol[ty], fuel - 1)
         ELSE ty

(***************************************************************************)
(* ConstraintSolver.deep_walk.  The result is a new type: it is written as *)
(* a term.  [tag |-> "type", id] is a type object returned as it is,       *)
(* [tag |-> "var", id] a variable left unbound, "fun" and "obj" the copies *)
(* the function builds, and [tag |-> "memo", of] the copy of object `of`   *)
(* found in the memo table while that copy is still being filled (the      *)
(* copy then refers to itself).                                            *)
(***************************************************************************)
RecursionErrorTerm == [tag |-> "RecursionError"]
RecursionErrorProps == <<RecursionErrorTerm>>

RECURSIVE DeepWalk(_, _, _, _, _)
RECURSIVE DeepWalkProps(_, _, _, _, _, _)

DeepWalk(h, sol, ty, memo, fuel) ==
    IF fuel = 0 THEN RecursionErrorTerm
    ELSE IF IsVar(h, ty) THEN
        LET walked == Walk(h, sol, ty, fuel) IN
        IF walked = Diverged THEN RecursionErrorTerm
        ELSE IF ~IsVar(h, walked) THEN DeepWalk(h, sol, walked, memo, fuel - 1)
        ELSE [tag |-> "var", id |-> walked]
    ELSE IF IsFun(h, ty) THEN
        LET d == DeepWalk(h, sol, h[ty].dom, memo, fuel - 1) IN
        IF d = RecursionErrorTerm THEN RecursionErrorTerm
        ELSE LET c == DeepWalk(h, sol, h[ty].cod, memo, fuel - 1) IN
             IF c = RecursionErrorTerm THEN RecursionErrorTerm
             ELSE [tag |-> "fun", dom |-> d, cod |-> c,
                   placeholders |-> h[ty].placeholders]
    ELSE IF IsObj(h, ty) THEN
        IF ty \in memo THEN [tag |-> "memo", of |-> ty]
        ELSE LET ps == DeepWalkProps(h, sol, ty, memo \cup {ty}, fuel - 1, 1) IN
             IF ps = RecursionErrorProps THEN RecursionErrorTerm
             ELSE [tag |-> "obj", of |-> ty, props |-> ps,
                   placeholders |-> h[ty].placeholders]
    ELSE [tag |-> "type", id |-> ty]

\* The loop `for key, value in ty.properties.items()` from property i on.
DeepWalkProps(h, sol, ty, memo, fuel, i) ==
    IF i > Len(h[ty].props) THEN <<>>
    ELSE LET w == DeepWalk(h, sol, h[ty].props[i][2], memo, fuel) IN
         IF w = RecursionErrorTerm THEN RecursionErrorProps
         ELSE LET rest == DeepWalkProps(h, sol, ty, memo, fuel, i + 1) IN
              IF rest = RecursionErrorProps THEN RecursionErrorProps
              ELSE <<[name |-> h[ty].props[i][1], type |-> w]>> \o rest

(***************************************************************************)
(* Outcome of a call that may raise: the substitution as the call left it  *)
(* (dicts are updated in place, also before a raise), the class of the     *)
(* exception raised ("" when the call returned), its message, for a        *)
(* UnificationError its two types, and whether the call deferred the       *)
(* constraint it was given.                                                *)
(***************************************************************************)
Ok(sol) == [sol |-> sol, exc |-> "", msg |-> "", args |-> <<>>, defer |-> FALSE]
Raise(sol, e, m, ts) ==
    [sol |-> sol, exc |-> e, msg |-> m, args |-> ts, defer |-> FALSE]
\* `self.constraints.append(constraint); return`: the constraint is put back at
\* the end of the work list.
Defer(sol) == [sol |-> sol, exc |-> "", msg |-> "", args |-> <<>>, defer |-> TRUE]

\* The two lines before each `raise exc.UnificationError(a, b, 'incompatible
\* types', ...)` of unify: both types are deep-walked first.
IncompatibleTypes(h, sol, a, b) ==
    LET wa == DeepWalk(h, sol, a, {}, RecursionLimit) IN
    IF wa = RecursionErrorTerm THEN Raise(sol, "RecursionError", "", <<>>)
    ELSE LET wb == DeepWalk(h, sol, b, {}, RecursionLimit) IN
         IF wb = RecursionErrorTerm THEN Raise(sol, "RecursionError", "", <<>>)
         ELSE Raise(sol, "UnificationError", "incompatible types", <<wa, wb>>)

\* (len(a) == 1) and ('_0' in a.properties)
LabelOmitted(h, t) == ObjLen(h, t) = 1 /\ HasProp(h, t, "_0")

(***************************************************************************)
(* ConstraintSolver.unify.  The memo argument of the code is created and   *)
(* passed down but never read or written, so it is not part of the model.  *)
(***************************************************************************)
\* An identity test that never holds.
NeverIdentical(a, b) == FALSE

\* `a is b`
Identical(a, b) == a = b

RECURSIVE Unify(_, _, _, _, _)
RECURSIVE UnifyProps(_, _, _, _, _, _)

Unify(h, sol, ty0, ty1, fuel) ==
    IF fuel = 0 THEN Raise(sol, "RecursionError", "", <<>>)
    ELSE
    LET a == Walk(h, sol, ty0, fuel)
        b == Walk(h, sol, ty1, fuel)
    IN
    IF a = Diverged \/ b = Diverged THEN Raise(sol, "RecursionError", "", <<>>)
    \* Nothing to unify if the types are already equal.
    ELSE IF Identical(a, b) THEN Ok(sol)
    \* If one of the types is a variable, unify it with the other.
    ELSE IF IsVar(h, a) THEN Ok(Bind(sol, a, b))
    ELSE IF IsVar(h, b) THEN Ok(Bind(sol, b, a))
    ELSE IF IsFun(h, a) /\ IsFun(h, b) THEN
        LET r == Unify(h, sol, h[a].dom, h[b].dom, fuel - 1) IN
        IF r.exc # "" THEN r
        ELSE Unify(h, r.sol, h[a].cod, h[b].cod, fuel - 1)
    ELSE IF IsObj(h, a) /\ IsObj(h, b) THEN
        IF LabelOmitted(h, a) \/ LabelOmitted(h, b) THEN
            \* next(iter(...)) of an object without properties
            IF ObjLen(h, a) = 0 \/ ObjLen(h, b) = 0
            THEN Raise(sol, "StopIteration", "", <<>>)
            ELSE Unify(h, sol, h[a].props[1][2], h[b].props[1][2], fuel - 1)
        ELSE UnifyProps(h, sol, a, b, 1, fuel)
    ELSE IncompatibleTypes(h, sol, a, b)

\* The loop `for prop_name in a` of unify, from the i-th property of a on.
UnifyProps(h, sol, a, b, i, fuel) ==
    IF i > ObjLen(h, a) THEN Ok(sol)
    ELSE LET p == h[a].props[i][1] IN
         IF ~HasProp(h, b, p) THEN IncompatibleTypes(h, sol, a, b)
         ELSE LET r == Unify(h, sol, h[a].props[i][2], PropType(h, b, p), fuel - 1) IN
              IF r.exc # "" THEN r
              ELSE UnifyProps(h, r.sol, a, b, i + 1, fuel)

(***************************************************************************)
(* ConstraintSolver.check_conformance (memo is unused there too).          *)
(***************************************************************************)
RECURSIVE CheckConformance(_, _, _, _, _)
RECURSIVE CheckConformanceProps(_, _, _, _, _, _)

CheckConformance(h, sol, ty0, ty1, fuel) ==
    IF fuel = 0 THEN Raise(sol, "RecursionError", "", <<>>)
    ELSE
    LET a == Walk(h, sol, ty0, fuel)
        b == Walk(h, sol, ty1, fuel)
    IN
    IF a = Diverged \/ b = Diverged THEN Raise(sol, "RecursionError", "", <<>>)
    \* If both types are equal, or if the right type is `Object`, conformity
    \* always succeeds.
    ELSE IF Identical(a, b) \/ (IsObj(h, b) /\ ObjLen(h, b) = 0) THEN Ok(sol)
    ELSE IF IsObj(h, a) /\ IsObj(h, b) THEN
        IF LabelOmitted(h, a) \/ LabelOmitted(h, b) THEN
            IF ObjLen(h, a) = 0 \/ ObjLen(h, b) = 0
            THEN Raise(sol, "StopIteration", "", <<>>)
            ELSE CheckConformance(h, sol, h[a].props[1][2], h[b].props[1][2],
                                  fuel - 1)
        ELSE CheckConformanceProps(h, sol, a, b, 1, fuel)
    \* If the left type is a variable, the constraint is treated as an equality.
    ELSE IF IsVar(h, a) THEN Unify(h, sol, a, b, fuel - 1)
    \* assert False, "unimplemented conformance checking between ..."
    ELSE Raise(sol, "AssertionError", "unimplemented conformance checking", <<>>)

\* The loop `for prop_name in a` of check_conformance, from property i on.
CheckConformanceProps(h, sol, a, b, i, fuel) ==
    IF i > ObjLen(h, a) THEN Ok(sol)
    ELSE LET p == h[a].props[i][1] IN
         IF ~HasProp(h, b, p)
         THEN Raise(sol, "UnificationError",
                    "type does not have a property '" \o p \o "'",
                    <<[tag |-> "type", id |-> a], [tag |-> "type", id |-> b]>>)
         ELSE LET r == CheckConformance(h, sol, h[a].props[i][2],
                                        PropType(h, b, p), fuel - 1) IN
              IF r.exc # "" THEN r
              ELSE CheckConformanceProps(h, r.sol, a, b, i + 1, fuel)

(***************************************************************************)
(* types.specialize(generic, pattern).  The solver calls it, but types.py  *)
(* does not define it: it is modelled on its description (structural,      *)
(* memoized substitution of placeholders).  A FunctionType it builds is a  *)
(* new object, allocated in the heap h under a fresh identifier.           *)
(***************************************************************************)
FreshTypeId(h) == "t" \o ToString(Cardinality(DOMAIN h))

RECURSIVE Specialize(_, _, _, _)
Specialize(h, generic, pattern, memo) ==
    IF h[generic].tag = "placeholder" THEN
        IF generic \in DOMAIN memo /\ memo[generic] # pattern
        THEN [h |-> h, ty |-> NoType, memo |-> memo, exc |-> "SpecializationError"]
        ELSE [h |-> h, ty |-> pattern, memo |-> Bind(memo, generic, pattern),
              exc |-> ""]
    ELSE IF IsVar(h, generic) \/ IsVar(h, pattern) THEN
        [h |-> h, ty |-> generic, memo |-> memo, exc |-> ""]
    ELSE IF IsFun(h, generic) /\ IsFun(h, pattern) THEN
        LET d == Specialize(h, h[generic].dom, h[pattern].dom, memo) IN
        IF d.exc # "" THEN d
        ELSE LET c == Specialize(d.h, h[generic].cod, h[pattern].cod, d.memo) IN
             IF c.exc # "" THEN c
             ELSE LET id == FreshTypeId(c.h) IN
                  [h |-> c.h @@ (id :> FunctionType(d.ty, c.ty, <<>>)),
                   ty |-> id, memo |-> c.memo, exc |-> ""]
    ELSE [h |-> h, ty |-> NoType, memo |-> memo, exc |-> "SpecializationError"]

(***************************************************************************)
(* Constraints (constraint.py).  A Constraint object is named by its index *)
(* in `cons`; _list_eq compares constraints by identity.                   *)
(***************************************************************************)
Equals(l, r) ==
    [kind |-> "equals", lhs |-> l, rhs |-> r, args |-> {}, choices |-> <<>>]
Conforms(l, r) ==
    [kind |-> "conforms", lhs |-> l, rhs |-> r, args |-> {}, choices |-> <<>>]
\* args: the keys of the dict of explicit specialization arguments.
Specializes(l, r, a) ==
    [kind |-> "specializes", lhs |-> l, rhs |-> r, args |-> a, choices |-> <<>>]
\* choices: the indexes of the alternative constraints.
Disjunction(cs) ==
    [kind |-> "disjunction", lhs |-> NoType, rhs |-> NoType, args |-> {},
     choices |-> cs]

\* The values of the kinds in the order of the prose: conformance before
\* specialization.
KindValueConformsFirst(k) ==
    CASE k = "equals"      -> 1
      [] k = "conforms"    -> 2
      [] k = "specializes" -> 3
      [] k = "disjunction" -> 4

\* Constraint.Kind: the values of the enumeration.
KindValue(k) ==
    CASE k = "equals"      -> 1
      [] k = "specializes" -> 2
      [] k = "conforms"    -> 3
      [] k = "disjunction" -> 4

\* Constraint.__lt__
ConstraintLt(c, d) == KindValue(c.kind) < KindValue(d.kind)

\* sorted(constraints): Python's sort is stable and uses __lt__ only, so the
\* i-th constraint moves to the position that counts the constraints smaller
\* than it and the earlier ones that are not greater.
SortConstraints(cs, l) ==
    LET rank(i) ==
            Cardinality({j \in 1..Len(l) :
                \/ ConstraintLt(cs[l[j]], cs[l[i]])
                \/ (j < i /\ ~ConstraintLt(cs[l[i]], cs[l[j]]))}) + 1
    IN [p \in 1..Len(l) |-> l[CHOOSE i \in 1..Len(l) : rank(i) = p]]

\* Two lists compared by their lengths alone.
ListEqByLength(lhs, rhs) == Len(lhs) = Len(rhs)

\* _list_eq with the default eq (identity of the elements).
ListEq(lhs, rhs) ==
    /\ Len(lhs) = Len(rhs)
    /\ \A i \in 1..Len(lhs) : lhs[i] = rhs[i]

(***************************************************************************)
(* The constraints of the model.  Those listed in TopLevel may be handed   *)
(* to the top-level solver; the others are the choices of the              *)
(* disjunctions.                                                           *)
(***************************************************************************)
ConstraintPool ==
    << Equals("v1", "Int"),                 \*  1
       Equals("v1", "v2"),                  \*  2
       Equals("v2", "v1"),                  \*  3
       Equals("v1", "FvI"),                 \*  4
       Equals("v1", "OXv"),                 \*  5
       Equals("v1", "UvI"),                 \*  6
       Equals("OXY", "OX"),                 \*  7
       Conforms("v2", "Int"),               \*  8
       Conforms("v3", "v2"),                \*  9
       Conforms("OX", "OXY"),               \* 10
       Specializes("v3", "v2", {}),         \* 11
       Specializes("v2", "Float", {}),      \* 12
       Disjunction(<<17, 18>>),             \* 13
       Disjunction(<<19, 20, 21>>),         \* 14
       Equals("O0", "Object"),              \* 15
       Conforms("Int", "Float"),            \* 16
       Specializes("v1", "Int", {}),        \* 17
       Specializes("v1", "Float", {}),      \* 18
       Specializes("FII", "GTT", {}),       \* 19
       Specializes("FIF", "GTT", {}),       \* 20
       Specializes("v3", "GTT", {"T"}),     \* 21
       Conforms("v2", "OX"),                \* 22
       Conforms("v2", "OXY") >>             \* 23

TopLevel == {i \in 1..Len(ConstraintPool) :
                \A j \in 1..Len(ConstraintPool) :
                    \A k \in 1..Len(ConstraintPool[j].choices) :
                        ConstraintPool[j].choices[k] # i}

\* The lists of distinct constraints of at most n elements.
ConstraintLists(n) ==
    {l \in UNION {[1..m -> TopLevel] : m \in 0..n} :
        \A i, j \in 1..Len(l) : i # j => l[i] # l[j]}

(***************************************************************************)
(* ConstraintSolver objects.                                               *)
(*   constraints  the work list (indexes into cons)                        *)
(*   solution     the dict self.solution (an index into dicts)             *)
(*   sub_systems  the child solvers (indexes into solvers)                 *)
(*   prevs        the local list of solutions() that detects a stuck loop  *)
(*   pc           where the generator solutions() stands: "loop" (the      *)
(*                first while), "subs" (the second while), "done", or      *)
(*                "stopped" (ended by a StopIteration raised in its body)  *)
(* and, to state properties, what the object was built from and what it    *)
(* has done: `given` (the constraints argument of __init__), `parent` (the *)
(* solver that created it, 0 for the top-level one), `popped` (the         *)
(* constraints popped from the work list, in order) and `seen` (the work   *)
(* list at the head of each iteration, in order).                          *)
(***************************************************************************)
\* ConstraintSolver.__init__
NewSolver(cs, given, solref, parent) ==
    [constraints |-> SortConstraints(cs, given), solution |-> solref,
     sub_systems |-> <<>>, prevs |-> <<>>, pc |-> "loop",
     given |-> given, parent |-> parent, popped |-> <<>>, seen |-> <<>>]

\* The dict a child solver works on: `partial_solution=copy(self.solution)`
\* is a new dict (and `partial_solution or {}` another new one when the copy
\* is empty); never the dict of the parent.
\* The parent's dict itself handed to the child, without copy().
SharedSolution(parentRef, copyRef) == parentRef

ChildSolution(parentRef, copyRef) == copyRef

\* The exception classes of exc.py that `except exc.SemanticError` catches.
SemanticErrors ==
    {"SemanticError", "DuplicateDeclaration", "UnboundName", "UnificationError"}
\* SpecializationError is named by the description of types.specialize only.
SpecializationErrors == {"SpecializationError"}
\* except exc.SemanticError, were it to match the class itself only.
IsExactlySemanticError(e) == e = "SemanticError"

IsSemanticError(e) == e \in SemanticErrors \cup SpecializationErrors

Top == stack[Len(stack)]
Me == solvers[Top]
Sol(i) == dicts[solvers[i].solution]

NoOutcome == [status |-> "running", exc |-> "", msg |-> ""]
Finished == [status |-> "done", exc |-> "", msg |-> ""]
Escaped(e, m) == [status |-> "raised", exc |-> e, msg |-> m]

Running == outcome.status = "running" /\ stack # <<>>

\* prevs[-n:]
LastN(q, n) == SubSeq(q, IF Len(q) > n THEN Len(q) - n + 1 ELSE 1, Len(q))

\* any(_list_eq(l, self.constraints) for l in prevs)
Stuck(s) == \E i \in 1..Len(s.prevs) : ListEq(s.prevs[i], s.constraints)

\* prevs = prevs[-len(self.constraints):] + [copy(self.constraints)]
NextPrevs(s) == LastN(s.prevs, Len(s.constraints)) \o <<s.constraints>>

Front(q) == SubSeq(q, 1, Len(q) - 1)

\* The frame on top of the stack has ended: control returns to the frame that
\* iterates it, or to the consumer, whose loop then ends.
PopFrame ==
    /\ stack' = Front(stack)
    /\ outcome' = IF Len(stack) = 1 THEN Finished ELSE NoOutcome

\* An exception nobody catches unwinds every generator frame and the consumer.
Crash(e, m) ==
    /\ stack' = <<>>
    /\ outcome' = Escaped(e, m)

\* The guard of one iteration of the first while loop whose popped constraint
\* is of the given kind.
Pops(kind) ==
    /\ Running
    /\ Me.pc = "loop"
    /\ Me.constraints # <<>>
    /\ ~Stuck(Me)
    /\ cons[Head(Me.constraints)].kind = kind

\* What an iteration of the first while loop does around solve_constraint,
\* which returned or raised with outcome r: lines 29-35 of solutions().
Iteration(r) ==
    LET c == Head(Me.constraints)
        left == IF r.defer THEN Append(Tail(Me.constraints), c)
                ELSE Tail(Me.constraints)
        s1 == [Me EXCEPT !.prevs = NextPrevs(Me), !.constraints = left,
                         !.popped = Append(@, c),
                         !.seen = Append(@, Me.constraints)]
    IN /\ dicts' = [dicts EXCEPT ![Me.solution] = r.sol]
       /\ UNCHANGED <<types, cons, fn>>
       /\ IF r.exc = "" THEN
              /\ solvers' = [solvers EXCEPT ![Top] = s1]
              /\ UNCHANGED <<stack, results, outcome>>
          ELSE IF IsSemanticError(r.exc) THEN
              \* yield error; return
              /\ solvers' = [solvers EXCEPT ![Top] = [s1 EXCEPT !.pc = "done"]]
              /\ results' = Append(results,
                     [kind |-> "error", by |-> Top, exc |-> r.exc, msg |-> r.msg,
                      args |-> r.args])
              /\ PopFrame
          ELSE IF r.exc = "StopIteration" THEN
              \* A StopIteration raised in a generator body ends the generator
              \* silently (Python 3.6) or becomes a RuntimeError (3.7 and later).
              \/ /\ solvers' = [solvers EXCEPT ![Top] = [s1 EXCEPT !.pc = "stopped"]]
                 /\ UNCHANGED results
                 /\ PopFrame
              \/ /\ solvers' = [solvers EXCEPT ![Top] = s1]
                 /\ UNCHANGED results
                 /\ Crash("RuntimeError", "generator raised StopIteration")
          ELSE
              /\ solvers' = [solvers EXCEPT ![Top] = s1]
              /\ UNCHANGED results
              /\ Crash(r.exc, r.msg)

\* solve_equality(constraint) on the substitution sol.
SolveEqualityOn(h, sol, c) == Unify(h, sol, c.lhs, c.rhs, RecursionLimit)

\* A solve_conformity that demands the equality of the two sides.
SolveConformityAsEquality(h, sol, c) ==
    Unify(h, sol, c.lhs, c.rhs, RecursionLimit)

\* solve_conformity(constraint) on the substitution sol.
SolveConformityOn(h, sol, c) ==
    LET a == Walk(h, sol, c.lhs, RecursionLimit)
        b == Walk(h, sol, c.rhs, RecursionLimit)
    IN IF a = Diverged \/ b = Diverged THEN Raise(sol, "RecursionError", "", <<>>)
       \* Defer the constraint if the unspecialized type is yet unknown.
       ELSE IF IsVar(h, b) THEN Defer(sol)
       \* If the left type is still unknown, unify it with the type it should
       \* conform to.
       ELSE IF IsVar(h, a) THEN Unify(h, sol, c.lhs, c.rhs, RecursionLimit)
       \* Otherwise, make sure it conforms to the right type.
       ELSE CheckConformance(h, sol, a, b, RecursionLimit)

\* A key of constraint.args is a str, a member of b.placeholders a
\* TypePlaceholder object, which defines neither __eq__ nor __hash__: they are
\* never equal, whatever the name of the placeholder.
KeyIsPlaceholder(h, key, ph) == FALSE

\* set(constraint.args) - set(b.placeholders)
Unspecified(h, args, phs) ==
    {k \in args : ~\E i \in 1..Len(phs) : KeyIsPlaceholder(h, k, phs[i])}

\* solve_specialization(constraint) on the substitution sol.
SolveSpecializationOn(h, sol, c) ==
    LET a == Walk(h, sol, c.lhs, RecursionLimit)
        b == Walk(h, sol, c.rhs, RecursionLimit)
    IN IF a = Diverged \/ b = Diverged THEN Raise(sol, "RecursionError", "", <<>>)
       \* Defer the constraint if the unspecialized type is yet unknown.
       ELSE IF IsVar(h, b) THEN Defer(sol)
       \* If the unspecialized type isn't generic, this boils down to an
       \* equality constraint.
       ELSE IF Placeholders(h, b) = <<>> THEN SolveEqualityOn(h, sol, c)
       \* Make sure no undefined specialization argument was supplied.
       ELSE IF Unspecified(h, c.args, Placeholders(h, b)) # {} THEN
           Raise(sol, "SemanticError", "superfluous explicit specializations", <<>>)
       \* Specialize the generic type against the left one and equate them.
       ELSE LET sp == Specialize(h, b, a, <<>>) IN
            IF sp.exc # "" THEN Raise(sol, sp.exc, "", <<>>)
            ELSE Unify(sp.h, sol, sp.ty, a, RecursionLimit)

\* solve_constraint(c) on the substitution sol, for a constraint that is not
\* a disjunction.
SolveConstraintOn(h, sol, c) ==
    CASE c.kind = "equals" -> SolveEqualityOn(h, sol, c)
      [] c.kind = "conforms" -> SolveConformityOn(h, sol, c)
      [] c.kind = "specializes" -> SolveSpecializationOn(h, sol, c)

\* One iteration of the first while loop on an equality constraint.
SolveEquality ==
    /\ Pops("equals")
    /\ Iteration(SolveEqualityOn(types, Sol(Top), cons[Head(Me.constraints)]))

\* One iteration of the first while loop on a conformance constraint.
SolveConformity ==
    /\ Pops("conforms")
    /\ Iteration(SolveConformityOn(types, Sol(Top), cons[Head(Me.constraints)]))

\* One iteration of the first while loop on a specialization constraint.
SolveSpecialization ==
    /\ Pops("specializes")
    /\ Iteration(SolveSpecializationOn(types, Sol(Top), cons[Head(Me.constraints)]))

\* A fork that hands each child its choice alone.
ChoiceAlone(choice, rest) == <<choice>>

\* The constraints argument of a child solver: `[choice] + self.constraints`.
ChildConstraints(choice, rest) == <<choice>> \o rest

\* The disjunction case of solve_constraint: one child solver per choice.
Fork ==
    /\ Pops("disjunction")
    /\ LET c == Head(Me.constraints)
           choices == cons[c].choices
           k == Len(choices)
           rest == Tail(Me.constraints)
           child(j) == NewSolver(cons, ChildConstraints(choices[j], rest),
                                 ChildSolution(Me.solution, Len(dicts) + j), Top)
       IN /\ dicts' = dicts \o [j \in 1..k |-> dicts[Me.solution]]
          /\ solvers' = [solvers EXCEPT ![Top] =
                            [Me EXCEPT !.prevs = NextPrevs(Me),
                                       !.constraints = <<>>,
                                       !.popped = Append(@, c),
                                       !.seen = Append(@, Me.constraints),
                                       !.sub_systems =
                                           [j \in 1..k |-> Len(solvers) + j]]]
                        \o [j \in 1..k |-> child(j)]
          /\ UNCHANGED <<types, cons, stack, results, outcome, fn>>

\* The check at the head of the first while loop: the work list has come back
\* to a list seen before.  The raise is outside the try block: nothing in
\* constraint_solver.py catches it.
Unsolvable ==
    /\ Running
    /\ Me.pc = "loop"
    /\ Me.constraints # <<>>
    /\ Stuck(Me)
    /\ Crash("SemanticError", "constraint system appear to be unsolvable")
    /\ UNCHANGED <<types, cons, solvers, dicts, results, fn>>

\* The binding of v as the dict holds it, not walked.
RawEntry(h, sol, v) ==
    [tag |-> IF IsVar(h, sol[v]) THEN "var" ELSE "type", id |-> sol[v]]

\* The value of one entry of the yielded dict: self.deep_walk(ty).
SolutionEntry(h, sol, v) == DeepWalk(h, sol, sol[v], {}, RecursionLimit)

(***************************************************************************)
(* The whole of solutions() on a solver whose constraints hold no          *)
(* disjunction, as one function of its work list: what the iteration       *)
(* yields (one solution, or one error) or the exception that leaves it.    *)
(***************************************************************************)
RECURSIVE Solutions(_, _, _, _, _)
Solutions(h, pool, sol, constraints, prevs) ==
    IF constraints = <<>> THEN
        LET walked == [v \in DOMAIN sol |-> SolutionEntry(h, sol, v)] IN
        IF \E v \in DOMAIN sol : walked[v] = RecursionErrorTerm
        THEN [kind |-> "raised", exc |-> "RecursionError", value |-> <<>>]
        ELSE [kind |-> "solution", exc |-> "", value |-> walked]
    ELSE IF \E i \in 1..Len(prevs) : ListEq(prevs[i], constraints) THEN
        [kind |-> "raised", exc |-> "SemanticError", value |-> <<>>]
    ELSE
        LET c == Head(constraints)
            r == SolveConstraintOn(h, sol, pool[c])
            left == IF r.defer THEN Append(Tail(constraints), c)
                    ELSE Tail(constraints)
        IN IF r.exc = "" THEN
               Solutions(h, pool, r.sol, left,
                         LastN(prevs, Len(constraints)) \o <<constraints>>)
           ELSE IF IsSemanticError(r.exc) THEN
               [kind |-> "error", exc |-> r.exc, value |-> <<>>]
           ELSE [kind |-> "raised", exc |-> r.exc, value |-> <<>>]

\* The work list is empty and there is no sub-system: yield the solution,
\* every entry deep-walked, and return.
YieldSolution ==
    /\ Running
    /\ Me.pc = "loop"
    /\ Me.constraints = <<>>
    /\ Me.sub_systems = <<>>
    /\ LET sol == Sol(Top)
           walked == [v \in DOMAIN sol |-> SolutionEntry(types, sol, v)]
       IN IF \E v \in DOMAIN sol : walked[v] = RecursionErrorTerm THEN
              /\ Crash("RecursionError", "")
              /\ UNCHANGED <<solvers, results>>
          ELSE
              /\ results' = Append(results,
                     [kind |-> "solution", by |-> Top, value |-> walked])
              /\ solvers' = [solvers EXCEPT ![Top].pc = "done"]
              /\ PopFrame
    /\ UNCHANGED <<types, cons, dicts, fn>>

\* `sub_system = self.sub_systems.pop()` and the start of its iteration.
NextSubSystem ==
    /\ Running
    /\ Me.pc \in {"loop", "subs"}
    /\ Me.constraints = <<>>
    /\ Me.sub_systems # <<>>
    /\ solvers' = [solvers EXCEPT ![Top] =
                      [Me EXCEPT !.pc = "subs", !.sub_systems = Front(@)]]
    /\ stack' = Append(stack, Me.sub_systems[Len(Me.sub_systems)])
    /\ UNCHANGED <<types, cons, dicts, results, outcome, fn>>

\* The second while loop has drained the sub-systems: the generator ends.
Return ==
    /\ Running
    /\ Me.pc = "subs"
    /\ Me.sub_systems = <<>>
    /\ solvers' = [solvers EXCEPT ![Top].pc = "done"]
    /\ PopFrame
    /\ UNCHANGED <<types, cons, dicts, results, fn>>

NoCall == [op |-> "none"]

\* ConstraintSolver(constraints=l) for a list l of constraints, as main.py
\* builds it, and the start of the iteration over it.
Init ==
    /\ types = TypeArena
    /\ cons = ConstraintPool
    /\ \E l \in ConstraintLists(MaxConstraints) :
           solvers = <<NewSolver(ConstraintPool, l, 1, 0)>>
    /\ dicts = <<EmptySolution>>
    /\ stack = <<1>>
    /\ results = <<>>
    /\ outcome = NoOutcome
    /\ fn = NoCall

Next ==
    \/ SolveEquality
    \/ SolveConformity
    \/ SolveSpecialization
    \/ Fork
    \/ Unsolvable
    \/ YieldSolution
    \/ NextSubSystem
    \/ Return

Spec == Init /\ [][Next]_vars

\* The consumer (main.py, `for result in solver`) iterates until the
\* generator is exhausted or raises: a step that can be taken is taken.
FairSpec == Spec /\ WF_vars(Next)

(***************************************************************************)
(* The methods of one solver called directly: a solver built with a        *)
(* partial solution, on which unify and solve_constraint are applied to a  *)
(* pair of types.  Each call starts from the partial solution the solver   *)
(* was built with, and its outcome is recorded in fn.                      *)
(***************************************************************************)
NotCalled == [sol |-> <<>>, exc |-> "<not called>", msg |-> "", args |-> <<>>,
              defer |-> FALSE]
Called(r) == r # NotCalled

\* Substitutions the solver reaches from the empty one by equalities.
PartialSolutions ==
    {EmptySolution,
     Bind(EmptySolution, "v1", "Int"),
     Bind(EmptySolution, "v1", "v2"),
     Bind(Bind(EmptySolution, "v1", "v2"), "v2", "OX"),
     Bind(Bind(EmptySolution, "v1", "L1"), "v2", "L2")}

\* ConstraintSolver(constraints=[], partial_solution=s), and the two types
\* its methods are about to be called with.
InitFn ==
    /\ types = TypeArena
    /\ cons = ConstraintPool
    /\ solvers = <<NewSolver(ConstraintPool, <<>>, 1, 0)>>
    /\ \E s \in PartialSolutions : dicts = <<s>>
    /\ stack = <<1>>
    /\ results = <<>>
    /\ outcome = NoOutcome
    /\ \E a, b \in TypeIds :
           fn = [a |-> a, b |-> b, fwd |-> NotCalled, bwd |-> NotCalled,
                 conf |-> NotCalled]

\* self.unify(a, b)
CallUnify ==
    /\ ~Called(fn.fwd)
    /\ fn' = [fn EXCEPT !.fwd = Unify(types, Sol(1), fn.a, fn.b, RecursionLimit)]
    /\ UNCHANGED <<types, cons, solvers, dicts, stack, results, outcome>>

\* self.unify(b, a)
CallUnifySwapped ==
    /\ ~Called(fn.bwd)
    /\ fn' = [fn EXCEPT !.bwd = Unify(types, Sol(1), fn.b, fn.a, RecursionLimit)]
    /\ UNCHANGED <<types, cons, solvers, dicts, stack, results, outcome>>

\* self.solve_constraint(Constraint(Kind.conforms, lhs=a, rhs=b))
CallSolveConformity ==
    /\ ~Called(fn.conf)
    /\ fn' = [fn EXCEPT !.conf =
                 SolveConformityOn(types, Sol(1), Conforms(fn.a, fn.b))]
    /\ UNCHANGED <<types, cons, solvers, dicts, stack, results, outcome>>

NextFn ==
    \/ CallUnify
    \/ CallUnifySwapped
    \/ CallSolveConformity

SpecFn == InitFn /\ [][NextFn]_vars

(***************************************************************************)
(* Two solvers built on the same constraints, none of them a disjunction,  *)
(* supplied in two orders, and each iterated to its end.  fn records the   *)
(* two lists and what each iteration produced.                             *)
(***************************************************************************)
NotRun == [kind |-> "not run", exc |-> "", value |-> <<>>]

NoDisjunction(l) ==
    \A i \in 1..Len(l) : ConstraintPool[l[i]].kind # "disjunction"

\* The lists that hold the constraints of l, each once, in any order.
Reorderings(l) ==
    {m \in [1..Len(l) -> {l[i] : i \in 1..Len(l)}] :
        \A i, j \in 1..Len(m) : i # j => m[i] # m[j]}

\* list(ConstraintSolver(constraints=l)): __init__ sorts the list, the
\* substitution starts empty.
SolveList(l) ==
    Solutions(types, cons, EmptySolution, SortConstraints(cons, l), <<>>)

InitDet ==
    /\ types = TypeArena
    /\ cons = ConstraintPool
    /\ solvers = <<>>
    /\ dicts = <<>>
    /\ stack = <<>>
    /\ results = <<>>
    /\ outcome = NoOutcome
    /\ \E l \in ConstraintLists(MaxConstraints) :
           /\ NoDisjunction(l)
           /\ \E m \in Reorderings(l) :
                  fn = [given |-> l, permuted |-> m, first |-> NotRun,
                        second |-> NotRun]

\* The iteration over the solver built on the list as given.
RunGiven ==
    /\ fn.first = NotRun
    /\ fn' = [fn EXCEPT !.first = SolveList(fn.given)]
    /\ UNCHANGED <<types, cons, solvers, dicts, stack, results, outcome>>

\* The iteration over the solver built on the permuted list.
RunPermuted ==
    /\ fn.second = NotRun
    /\ fn' = [fn EXCEPT !.second = SolveList(fn.permuted)]
    /\ UNCHANGED <<types, cons, solvers, dicts, stack, results, outcome>>

NextDet ==
    \/ RunGiven
    \/ RunPermuted

SpecDet == InitDet /\ [][NextDet]_vars

(***************************************************************************)
(* Vocabulary of the properties.                                           *)
(***************************************************************************)
SolverIds == 1..Len(solvers)
InSeq(l, x) == \E i \in 1..Len(l) : l[i] = x
Pos(l, x) == CHOOSE i \in 1..Len(l) : l[i] = x
FirstPos(l, x) == CHOOSE i \in 1..Len(l) : l[i] = x /\ \A j \in 1..(i - 1) : l[j] # x
KindOf(c) == cons[c].kind

\* The solver has not started its first iteration: its work list is the one
\* __init__ built.
AtConstruction(s) == s.seen = <<>>

\* The work list of s holds the constraints it was given, in ascending rank,
\* and two constraints of the same kind in the order they were given.
StableByRank(rank(_), s) ==
    /\ Len(s.constraints) = Len(s.given)
    /\ \A i \in 1..Len(s.given) : InSeq(s.constraints, s.given[i])
    /\ \A i, j \in 1..Len(s.constraints) :
           i < j => rank(KindOf(s.constraints[i])) <= rank(KindOf(s.constraints[j]))
    /\ \A i, j \in 1..Len(s.given) :
           (i < j /\ KindOf(s.given[i]) = KindOf(s.given[j]))
               => Pos(s.constraints, s.given[i]) < Pos(s.constraints, s.given[j])

\* Among the constraints s was given, none of kind `later` is popped for the
\* first time before one of kind `first`.
FirstBefore(s, first, later) ==
    \A i, j \in 1..Len(s.given) :
        LET c == s.given[i]
            d == s.given[j]
        IN (KindOf(c) = first /\ KindOf(d) = later /\ InSeq(s.popped, d))
               => /\ InSeq(s.popped, c)
                  /\ FirstPos(s.popped, c) < FirstPos(s.popped, d)

RankAsClaimed(k) ==
    CASE k = "equals" -> 1 [] k = "conforms" -> 2
      [] k = "specializes" -> 3 [] k = "disjunction" -> 4

RankAsCoded(k) ==
    CASE k = "equals" -> 1 [] k = "specializes" -> 2
      [] k = "conforms" -> 3 [] k = "disjunction" -> 4

(***************************************************************************)
(* C1 (as stated): at construction the work list of every solver is        *)
(* ordered Equals, Conforms, Specializes, Disjunction, the given order     *)
(* kept inside each kind, and no Specializes given at construction is      *)
(* popped before a Conforms given at construction.                         *)
(***************************************************************************)
C1_OrderAsClaimed ==
    \A i \in SolverIds :
        /\ AtConstruction(solvers[i]) => StableByRank(RankAsClaimed, solvers[i])
        /\ FirstBefore(solvers[i], "conforms", "specializes")

(***************************************************************************)
(* C1 (amended): at construction the work list of every solver, the        *)
(* top-level one and every child of a fork, is ordered Equals,             *)
(* Specializes, Conforms, Disjunction (the values 1, 2, 3, 4 of            *)
(* Constraint.Kind), the given order kept inside each kind; consequently   *)
(* no Conforms given at construction is popped before a Specializes given  *)
(* at construction.                                                        *)
(***************************************************************************)
C1_OrderAsCoded ==
    \A i \in SolverIds :
        /\ AtConstruction(solvers[i]) => StableByRank(RankAsCoded, solvers[i])
        /\ FirstBefore(solvers[i], "specializes", "conforms")

\* A child solver just built at a fork, whose given list holds a Specializes
\* and a Conforms and was not sorted already, after its parent has popped a
\* Conforms.
C1_Witness ==
    \E i \in SolverIds :
        LET s == solvers[i] IN
        /\ s.parent # 0
        /\ AtConstruction(s)
        /\ s.constraints # s.given
        /\ \E j, k \in 1..Len(s.given) :
               KindOf(s.given[j]) = "specializes" /\ KindOf(s.given[k]) = "conforms"
        /\ \E c \in 1..Len(solvers[s.parent].popped) :
               KindOf(solvers[s.parent].popped[c]) = "conforms"

(***************************************************************************)
(* C2 (as stated): for two object types A and B, neither a `_0` object,    *)
(* solving Conforms(A, B) succeeds exactly when every property of B is a   *)
(* property of A with a conforming type, and fails with a UnificationError *)
(* when a property of B is missing from A.                                 *)
(***************************************************************************)
PlainObjects(h, a, b) ==
    /\ IsObj(h, a) /\ ~LabelOmitted(h, a)
    /\ IsObj(h, b) /\ ~LabelOmitted(h, b)

\* Every property of `expected` is a property of `actual`, with a conforming
\* type.
HasAllPropertiesOf(h, sol, actual, expected) ==
    \A i \in 1..ObjLen(h, expected) :
        LET p == PropNames(h, expected)[i] IN
        /\ HasProp(h, actual, p)
        /\ CheckConformance(h, sol, PropType(h, actual, p),
                            PropType(h, expected, p), RecursionLimit).exc = ""

C2_ExpectedSideDemands ==
    (Called(fn.conf) /\ PlainObjects(types, fn.a, fn.b)) =>
        /\ (fn.conf.exc = "" /\ ~fn.conf.defer)
               <=> HasAllPropertiesOf(types, Sol(1), fn.a, fn.b)
        /\ (\E i \in 1..ObjLen(types, fn.b) :
               ~HasProp(types, fn.a, PropNames(types, fn.b)[i]))
               => fn.conf.exc = "UnificationError"

(***************************************************************************)
(* Vocabulary of the properties about forks.                               *)
(***************************************************************************)
IsBranch(i) == solvers[i].parent # 0
Children(i) == {j \in SolverIds : solvers[j].parent = i}
Siblings(i) == {j \in SolverIds : j # i /\ solvers[j].parent = solvers[i].parent}
IsLeaf(i) == Children(i) = {}
Ended(i) == solvers[i].pc \in {"done", "stopped"}
ResultsBy(i) == {k \in 1..Len(results) : results[k].by = i}
ErrorsBy(i) == {k \in ResultsBy(i) : results[k].kind = "error"}
FailureKinds == {"UnificationError", "SpecializationError"}

(***************************************************************************)
(* C3: after a fork, a unification or specialization failure inside a      *)
(* branch is yielded as one error and ends that branch only: it never      *)
(* escapes the iteration, no sibling of the failed branch is dropped (it   *)
(* is pending in its parent, being solved, or has ended), and when the     *)
(* iteration ends every branch that ran to its end has yielded exactly one *)
(* result.  If every branch failed, the results are errors only.           *)
(***************************************************************************)
C3_FailureEndsOneBranch ==
    /\ (Len(solvers) > 1 /\ outcome.status = "raised")
           => outcome.exc \notin FailureKinds
    /\ \A i \in SolverIds :
           (IsBranch(i) /\ ErrorsBy(i) # {}) =>
               /\ Cardinality(ResultsBy(i)) = 1
               /\ solvers[i].pc = "done"
               /\ IsLeaf(i)
               /\ \A j \in Siblings(i) :
                      \/ InSeq(solvers[solvers[i].parent].sub_systems, j)
                      \/ InSeq(stack, j)
                      \/ Ended(j)
                      \/ outcome.status = "raised"
    /\ outcome = Finished =>
           /\ \A i \in SolverIds : Ended(i)
           /\ \A i \in SolverIds :
                  Cardinality(ResultsBy(i)) =
                      IF IsLeaf(i) /\ solvers[i].pc = "done" THEN 1 ELSE 0
           /\ (\A i \in SolverIds : IsLeaf(i) => ErrorsBy(i) # {})
                  => \A k \in 1..Len(results) : results[k].kind = "error"

\* The iteration has ended after a branch failed with a unification or
\* specialization error and a sibling solved after it yielded a solution.
C3_Witness ==
    /\ outcome = Finished
    /\ \E k, l \in 1..Len(results) :
           /\ k < l
           /\ results[k].kind = "error" /\ results[k].exc \in FailureKinds
           /\ results[l].kind = "solution"
           /\ IsBranch(results[k].by)
           /\ results[l].by \in Siblings(results[k].by)

(***************************************************************************)
(* C4: a fork on a Disjunction with k choices creates exactly k child      *)
(* solvers; the j-th is given its choice followed by the constraints that  *)
(* remained in the parent, whose work list becomes empty; a child that has *)
(* not started holds a substitution equal to the parent's at the fork, in  *)
(* a dict of its own.  No step changes the substitution of a solver other  *)
(* than the one that is running, and a yielded solution is the deep walk   *)
(* of the substitution of the solver that yielded it and of no other.      *)
(***************************************************************************)
Last(q) == q[Len(q)]

ForkStructure(p) ==
    LET before == Last(solvers[p].seen)
        choices == cons[Head(before)].choices
        k == Len(choices)
    IN /\ KindOf(Head(before)) = "disjunction"
       /\ Last(solvers[p].popped) = Head(before)
       /\ solvers[p].constraints = <<>>
       /\ Cardinality(Children(p)) = k
       /\ \E base \in SolverIds :
              /\ Children(p) = {base + j : j \in 1..k}
              /\ \A j \in 1..k :
                     solvers[base + j].given = <<choices[j]>> \o Tail(before)

OwnCopy(p, c) ==
    /\ solvers[c].solution # solvers[p].solution
    /\ \A d \in Siblings(c) : solvers[d].solution # solvers[c].solution
    /\ AtConstruction(solvers[c]) => Sol(c) = Sol(p)
    /\ \A v \in DOMAIN Sol(p) : v \in DOMAIN Sol(c) /\ Sol(c)[v] = Sol(p)[v]

OthersUntouched ==
    \A i \in SolverIds :
        i # Top => dicts'[solvers[i].solution] = dicts[solvers[i].solution]

SolutionsAreOwn ==
    \A k \in 1..Len(results) :
        results[k].kind = "solution" =>
            LET i == results[k].by IN
            /\ DOMAIN results[k].value = DOMAIN Sol(i)
            /\ \A v \in DOMAIN Sol(i) :
                   results[k].value[v] = SolutionEntry(types, Sol(i), v)

C4_BranchIsolation ==
    /\ [](\A p \in SolverIds : Children(p) # {} =>
              /\ ForkStructure(p)
              /\ \A c \in Children(p) : OwnCopy(p, c))
    /\ [][stack # <<>> => OthersUntouched]_vars
    /\ []SolutionsAreOwn

\* Two sibling branches of a fork made on a non-empty substitution have both
\* yielded a solution, having bound the same variable to different types.
C4_Witness ==
    \E k, l \in 1..Len(results) :
        LET i == results[k].by
            j == results[l].by
        IN /\ results[k].kind = "solution" /\ results[l].kind = "solution"
           /\ IsBranch(i) /\ j \in Siblings(i)
           /\ DOMAIN Sol(solvers[i].parent) # {}
           /\ \E v \in DOMAIN Sol(i) \cap DOMAIN Sol(j) :
                  /\ v \notin DOMAIN Sol(solvers[i].parent)
                  /\ Sol(i)[v] # Sol(j)[v]
                  /\ results[k].value[v] # results[l].value[v]

(***************************************************************************)
(* C5 (as stated): unify on two object types, neither a single-property    *)
(* `_0` object, succeeds only if both have the same property names, and    *)
(* fails with UnificationError 'incompatible types' if either has a        *)
(* property the other lacks.                                               *)
(***************************************************************************)
NameSet(h, t) == {PropNames(h, t)[i] : i \in 1..ObjLen(h, t)}

C5_IdenticalPropertyNames ==
    LET a == Walk(types, Sol(1), fn.a, RecursionLimit)
        b == Walk(types, Sol(1), fn.b, RecursionLimit)
    IN (Called(fn.fwd) /\ a # Diverged /\ b # Diverged /\ PlainObjects(types, a, b))
       => /\ fn.fwd.exc = "" => NameSet(types, a) = NameSet(types, b)
          /\ NameSet(types, a) # NameSet(types, b)
                 => /\ fn.fwd.exc = "UnificationError"
                    /\ fn.fwd.msg = "incompatible types"

(***************************************************************************)
(* C6 (as stated): unify(a, b) and unify(b, a), from the same              *)
(* substitution, both succeed or both fail with the same kind of error,    *)
(* and on success every type variable deep-walks to the same type in the   *)
(* two resulting substitutions.                                            *)
(***************************************************************************)
C6_UnifySymmetric ==
    (Called(fn.fwd) /\ Called(fn.bwd)) =>
        /\ fn.fwd.exc = fn.bwd.exc
        /\ fn.fwd.exc = "" =>
               \A v \in TypeVars :
                   DeepWalk(types, fn.fwd.sol, v, {}, RecursionLimit)
                       = DeepWalk(types, fn.bwd.sol, v, {}, RecursionLimit)

(***************************************************************************)
(* C7: the iteration over a solver always ends.  Each iteration of the     *)
(* first loop removes the head of the work list or moves it to the end; a  *)
(* solver whose non-empty work list is one it has started an iteration     *)
(* from before is detected as stuck, and its next step raises 'constraint  *)
(* system appear to be unsolvable'; a stuck solver holds only constraints  *)
(* that the current substitution defers again.                             *)
(***************************************************************************)
\* solve_constraint on c would put c back at the end of the work list and
\* leave the substitution as it is.
DefersAgain(h, sol, c) ==
    LET r == CASE c.kind = "equals" -> SolveEqualityOn(h, sol, c)
               [] c.kind = "conforms" -> SolveConformityOn(h, sol, c)
               [] c.kind = "specializes" -> SolveSpecializationOn(h, sol, c)
               [] c.kind = "disjunction" -> Ok(sol)
    IN r.defer /\ r.sol = sol

InLoop(i) == solvers[i].pc = "loop" /\ solvers[i].constraints # <<>>

RemovesOrDefers ==
    (stack # <<>> /\ InLoop(Top) /\ ~Stuck(Me)) =>
        LET before == Me.constraints
            after == solvers'[Top].constraints
        IN \/ after = Tail(before)
           \/ after = Append(Tail(before), Head(before))
           \/ after = <<>> /\ KindOf(Head(before)) = "disjunction"

ReportsWhenStuck ==
    (stack # <<>> /\ InLoop(Top) /\ Stuck(Me)) =>
        outcome' = Escaped("SemanticError", "constraint system appear to be unsolvable")

C7_Terminates ==
    /\ <>(outcome.status # "running")
    /\ [][RemovesOrDefers /\ ReportsWhenStuck]_vars
    /\ [](\A i \in SolverIds :
              /\ (InLoop(i) /\ InSeq(solvers[i].seen, solvers[i].constraints))
                     => Stuck(solvers[i])
              /\ (InLoop(i) /\ Stuck(solvers[i]))
                     => \A k \in 1..Len(solvers[i].constraints) :
                            DefersAgain(types, Sol(i), cons[solvers[i].constraints[k]]))
    /\ [](outcome.msg = "constraint system appear to be unsolvable"
              => \E i \in SolverIds : InLoop(i) /\ Stuck(solvers[i]))

\* The unsolvable report has been raised by a solver after a round of
\* deferrals brought back a work list of at least two constraints.
C7_Witness ==
    /\ outcome = Escaped("SemanticError", "constraint system appear to be unsolvable")
    /\ \E i \in SolverIds :
           /\ InLoop(i) /\ Stuck(solvers[i])
           /\ Len(solvers[i].constraints) >= 2
           /\ Len(solvers[i].popped) > Len(solvers[i].constraints)

(***************************************************************************)
(* C8: in every substitution of every solver, and in every yielded         *)
(* solution, no type variable is bound to itself, directly or through      *)
(* other variables, and walk ends on every type variable.                  *)
(***************************************************************************)
\* The types met from v by following bindings, n of them at most.
RECURSIVE ChainFrom(_, _, _)
ChainFrom(sol, v, n) ==
    IF n = 0 \/ v \notin DOMAIN sol THEN {}
    ELSE {sol[v]} \cup ChainFrom(sol, sol[v], n - 1)

Acyclic(sol) ==
    \A v \in DOMAIN sol : v \notin ChainFrom(sol, v, Cardinality(DOMAIN sol))

\* The variable-to-variable bindings of a yielded solution.
VarBindings(value) ==
    [v \in {w \in DOMAIN value : value[w].tag = "var"} |-> value[v].id]

C8_BindingsAcyclic ==
    /\ \A d \in 1..Len(dicts) :
           /\ Acyclic(dicts[d])
           /\ \A v \in TypeVars : Walk(types, dicts[d], v, RecursionLimit) # Diverged
    /\ \A k \in 1..Len(results) :
           results[k].kind = "solution" => Acyclic(VarBindings(results[k].value))

\* A solver has solved both Equals(v1, v2) and Equals(v2, v1) and has yielded
\* a solution in which one of the two variables is bound to the other.
C8_Witness ==
    \E k \in 1..Len(results) :
        /\ results[k].kind = "solution"
        /\ InSeq(solvers[results[k].by].popped, 2)
        /\ InSeq(solvers[results[k].by].popped, 3)
        /\ VarBindings(results[k].value) # <<>>

(***************************************************************************)
(* C9 (as stated): no yielded solution maps a type variable v to a type    *)
(* in which v occurs, directly or through other variables the solution     *)
(* maps.                                                                   *)
(***************************************************************************)
\* The type variables that occur in the type object t.
RECURSIVE VarsOfType(_, _, _)
VarsOfType(h, t, fuel) ==
    IF fuel = 0 THEN {}
    ELSE IF IsVar(h, t) THEN {t}
    ELSE IF IsFun(h, t) THEN
        VarsOfType(h, h[t].dom, fuel - 1) \cup VarsOfType(h, h[t].cod, fuel - 1)
    ELSE IF IsObj(h, t) THEN
        UNION {VarsOfType(h, h[t].props[i][2], fuel - 1) : i \in 1..ObjLen(h, t)}
    ELSE IF h[t].tag = "union" THEN
        UNION {VarsOfType(h, h[t].members[i], fuel - 1) : i \in 1..Len(h[t].members)}
    ELSE {}

\* The type variables that occur in a deep-walked type.
RECURSIVE VarsOfTerm(_, _)
VarsOfTerm(h, w) ==
    CASE w.tag = "var" -> {w.id}
      [] w.tag = "type" -> VarsOfType(h, w.id, RecursionLimit)
      [] w.tag = "fun" -> VarsOfTerm(h, w.dom) \cup VarsOfTerm(h, w.cod)
      [] w.tag = "obj" -> UNION {VarsOfTerm(h, w.props[i].type) : i \in 1..Len(w.props)}
      [] OTHER -> {}

\* The variables met from v through the solution, in n steps at most.
RECURSIVE OccurringFrom(_, _, _, _)
OccurringFrom(h, value, v, n) ==
    IF n = 0 \/ v \notin DOMAIN value THEN {}
    ELSE LET direct == VarsOfTerm(h, value[v]) IN
         direct \cup UNION {OccurringFrom(h, value, w, n - 1) : w \in direct}

C9_OccursDiscipline ==
    \A k \in 1..Len(results) :
        results[k].kind = "solution" =>
            \A v \in DOMAIN results[k].value :
                v \notin OccurringFrom(types, results[k].value, v,
                                       Cardinality(DOMAIN results[k].value))

(***************************************************************************)
(* C10 (as stated): every type variable that occurs in the constraints     *)
(* given to the solver is a key of every yielded solution, mapped to a     *)
(* type that is not a variable.                                            *)
(***************************************************************************)
\* The type variables that occur in constraint c, choices included.
RECURSIVE VarsOfConstraint(_, _)
VarsOfConstraint(h, c) ==
    IF cons[c].kind = "disjunction"
    THEN UNION {VarsOfConstraint(h, cons[c].choices[i]) :
                    i \in 1..Len(cons[c].choices)}
    ELSE VarsOfType(h, cons[c].lhs, RecursionLimit)
             \cup VarsOfType(h, cons[c].rhs, RecursionLimit)

\* The type variables of the constraints given to the top-level solver.
GivenVars ==
    UNION {VarsOfConstraint(types, solvers[1].given[i]) :
               i \in 1..Len(solvers[1].given)}

Resolved(r, v) ==
    IF v \in DOMAIN r.value THEN r.value[v] ELSE [tag |-> "var", id |-> v]

AllVars(l) == UNION {VarsOfConstraint(types, l[i]) : i \in 1..Len(l)}

\* The two solutions agree on every variable: a variable-free type is the
\* same in both, a variable in one is a variable in the other, and two
\* variables stand for each other in one exactly when they do in the other.
EquivalentSolutions(r1, r2, vs) ==
    /\ \A v \in vs :
           LET a == Resolved(r1, v)
               b == Resolved(r2, v)
           IN /\ (a.tag = "var") <=> (b.tag = "var")
              /\ (a.tag # "var" /\ VarsOfTerm(types, a) = {}) => a = b
    /\ \A v, w \in vs :
           (Resolved(r1, v).tag = "var" /\ Resolved(r1, w).tag = "var") =>
               ((Resolved(r1, v) = Resolved(r1, w))
                    <=> (Resolved(r2, v) = Resolved(r2, w)))

C11_OrderIndependent ==
    /\ fn.first # NotRun => fn.first.kind = "solution"
    /\ (fn.first # NotRun /\ fn.second # NotRun) =>
           /\ fn.first.kind = fn.second.kind
           /\ fn.first.kind = "solution"
                  => EquivalentSolutions(fn.first, fn.second, AllVars(fn.given))

\* The part of C11 about the order alone: the two iterations end the same
\* way and, when both yield a solution, the solutions are equivalent.
C11_SameOutcomeInBothOrders ==
    (fn.first # NotRun /\ fn.second # NotRun) =>
        /\ fn.first.kind = "solution" <=> fn.second.kind = "solution"
        /\ fn.first.kind = "solution"
               => EquivalentSolutions(fn.first, fn.second, AllVars(fn.given))


(***************************************************************************)
(* The semantic passes of main.py: ScopeBuilder, ScopeBinder and           *)
(* ConstraintInferer run over a module, one after the other, and the       *)
(* constraints of the last one are handed to a ConstraintSolver.           *)
(*                                                                         *)
(* A node of the tree (mamba/ast/nodes.py) is a record                     *)
(*   cls           the class of the node                                   *)
(*   name          the name of a declaration, identifier or object-type    *)
(*                 property; the value of a string literal                 *)
(*   lit           the Python type of the value of a ScalarLiteral         *)
(*   placeholders  the placeholder names of a declaration (strings)        *)
(*   kids          the child nodes that are fields of the class, as        *)
(*                 <<field, node>> in the order of _fields                 *)
(*   specializers  the dict Identifier.specializers, as <<key, node>>; it  *)
(*                 is an attribute of the node, not one of its _fields     *)
(* A node is named by its path from the module (the fields followed), and  *)
(* the path stands for its source range too.  The attributes the passes    *)
(* set on the nodes (inner_scope, symbol, scope, type) are maps from paths.*)
(***************************************************************************)
\* Longest module (number of declarations) the passes are run on.
MaxDeclarations == 2

AstNode(cls) ==
    [cls |-> cls, name |-> "", lit |-> "", placeholders |-> <<>>,
     kids |-> <<>>, specializers |-> <<>>]

AstNothing == AstNode("Nothing")

AstIdentifier(name, specializers) ==
    [AstNode("Identifier") EXCEPT !.name = name, !.specializers = specializers]

\* ast.ObjectTypeProperty(name, annotation); the fields are ('name',
\* 'annotation'), of which the annotation is a node.
AstObjectTypeProperty(name, annotation) ==
    [AstNode("ObjectTypeProperty") EXCEPT
        !.name = name, !.kids = << <<"annotation", annotation>> >>]

\* ast.ObjectType(properties): properties is a list of ObjectTypeProperty.
AstObjectType(properties) ==
    [AstNode("ObjectType") EXCEPT
        !.kids = [i \in 1..Len(properties) |->
                     <<"properties" \o ToString(i), properties[i]>>]]

AstScalarLiteral(lit, value) ==
    [AstNode("ScalarLiteral") EXCEPT !.lit = lit, !.name = value]

AstArgRef == AstNode("ArgRef")

\* ast.InfixExpression(operator, left, right): the operator is a node that the
\* passes treat as an identifier (`node.operator.scope`, `.name`, `.type`).
AstInfixExpression(operator, left, right) ==
    [AstNode("InfixExpression") EXCEPT
        !.kids = << <<"operator", AstIdentifier(operator, <<>>)>>,
                    <<"left", left>>, <<"right", right>> >>]

AstObjectLiteralProperty(key, value) ==
    [AstNode("ObjectLiteralProperty") EXCEPT
        !.kids = << <<"key", AstScalarLiteral("str", key)>>,
                    <<"value", value>> >>]

AstObjectLiteral(properties) ==
    [AstNode("ObjectLiteral") EXCEPT
        !.kids = [i \in 1..Len(properties) |->
                     <<"properties" \o ToString(i), properties[i]>>]]

\* ast.FunctionDeclaration(name, placeholders, domain, codomain, body) as
\* parse_function_declaration builds it; a placeholder is the str that
\* parse_placeholder returns.
AstFunctionDeclaration(name, placeholders, domain, codomain, body) ==
    [AstNode("FunctionDeclaration") EXCEPT
        !.name = name, !.placeholders = placeholders,
        !.kids = << <<"domain", domain>>, <<"codomain", codomain>>,
                    <<"body", body>> >>]

AstTypeDeclaration(name, placeholders, body) ==
    [AstNode("TypeDeclaration") EXCEPT
        !.name = name, !.placeholders = placeholders,
        !.kids = << <<"body", body>> >>]

\* getattr(node, field) for a field that holds a node.
Kid(node, field) ==
    node.kids[CHOOSE i \in 1..Len(node.kids) : node.kids[i][1] = field][2]

(***************************************************************************)
(* The declarations the modules of the model are made of.                  *)
(***************************************************************************)
AstInt == AstIdentifier("Int", <<>>)
AstFloat == AstIdentifier("Float", <<>>)
AstOne == AstScalarLiteral("int", "1")
AstTwo == AstScalarLiteral("int", "2")
AstTwoDotZero == AstScalarLiteral("float", "2.0")
\* { y = $.x }
AstYOfArgX ==
    AstObjectLiteral(<<AstObjectLiteralProperty("y",
        AstInfixExpression(".", AstArgRef, AstScalarLiteral("str", "x")))>>)

SampleDeclarations ==
    << \*  1  func f _ -> Int = 1 + 2
       AstFunctionDeclaration("f", <<>>, AstNothing, AstInt,
           AstInfixExpression("+", AstOne, AstTwo)),
       \*  2  func g _ -> Float = 1 + 2.0
       AstFunctionDeclaration("g", <<>>, AstNothing, AstFloat,
           AstInfixExpression("+", AstOne, AstTwoDotZero)),
       \*  3  func h _ -> Int = unknown
       AstFunctionDeclaration("h", <<>>, AstNothing, AstInt,
           AstIdentifier("unknown", <<>>)),
       \*  4  func identity[ T ] { x: T } -> { y: T } = { y = $.x }
       AstFunctionDeclaration("identity", <<"T">>,
           AstObjectType(<<AstObjectTypeProperty("x", AstIdentifier("T", <<>>))>>),
           AstObjectType(<<AstObjectTypeProperty("y", AstIdentifier("T", <<>>))>>),
           AstYOfArgX),
       \*  5  func getx { x: Int } -> { y: Int } = { y = $.x }
       AstFunctionDeclaration("getx", <<>>,
           AstObjectType(<<AstObjectTypeProperty("x", AstInt)>>),
           AstObjectType(<<AstObjectTypeProperty("y", AstInt)>>),
           AstYOfArgX),
       \*  6  func f _ -> Float = 2.0
       AstFunctionDeclaration("f", <<>>, AstNothing, AstFloat, AstTwoDotZero),
       \*  7  func f _ -> Int = 1
       AstFunctionDeclaration("f", <<>>, AstNothing, AstInt, AstOne),
       \*  8  type f = { x: Int }
       AstTypeDeclaration("f", <<>>,
           AstObjectType(<<AstObjectTypeProperty("x", AstInt)>>)),
       \*  9  type g = _
       AstTypeDeclaration("g", <<>>, AstNothing),
       \* 10  func p[ T, T ] _ -> Int = 1
       AstFunctionDeclaration("p", <<"T", "T">>, AstNothing, AstInt, AstOne),
       \* 11  type q[ T, T ] = { x: T }
       AstTypeDeclaration("q", <<"T", "T">>,
           AstObjectType(<<AstObjectTypeProperty("x", AstIdentifier("T", <<>>))>>)),
       \* 12  func s _ -> List[ Int ] = 1
       AstFunctionDeclaration("s", <<>>, AstNothing,
           AstIdentifier("List", << <<"_0", AstInt>> >>), AstOne),
       \* 13  func a _ -> Unknown = 1
       AstFunctionDeclaration("a", <<>>, AstNothing,
           AstIdentifier("Unknown", <<>>), AstOne),
       \* 14  func b _ -> Int = a
       AstFunctionDeclaration("b", <<>>, AstNothing, AstInt,
           AstIdentifier("a", <<>>)),
       \* 15  func print _ -> Int = print
       AstFunctionDeclaration("print", <<>>, AstNothing, AstInt,
           AstIdentifier("print", <<>>)),
       \* 16  func geto { x: Object } -> Int = $.x
       AstFunctionDeclaration("geto", <<>>,
           AstObjectType(<<AstObjectTypeProperty("x",
                               AstIdentifier("Object", <<>>))>>),
           AstInt,
           AstInfixExpression(".", AstArgRef, AstScalarLiteral("str", "x"))),
       \* 17  func gety { x: Int } -> Int = $.y
       AstFunctionDeclaration("gety", <<>>,
           AstObjectType(<<AstObjectTypeProperty("x", AstInt)>>),
           AstInt,
           AstInfixExpression(".", AstArgRef, AstScalarLiteral("str", "y"))) >>

\* The modules of at most n declarations.
Modules(n) ==
    UNION {{[i \in 1..m |-> SampleDeclarations[l[i]]] :
               l \in [1..m -> 1..Len(SampleDeclarations)]} : m \in 1..n}

\* The path (and source range) of the i-th declaration of the module.
DeclarationPath(i) == <<"declarations" \o ToString(i)>>

(***************************************************************************)
(* Symbols and scopes (symbol.py).  Symbol and Scope objects live in two   *)
(* heaps and are named by their index; 0 stands for None.  The dict        *)
(* Scope.symbols is a sequence of <<name, list of symbols>> in insertion   *)
(* order.  TypeAlias objects, which are not types, are kept in the heap of *)
(* types under a tag of their own, since Symbol.type holds either.         *)
(***************************************************************************)
TypeAlias(subject) == [BlankType EXCEPT !.tag = "alias", !.members = <<subject>>]

\* types.Type(description=...)
BuiltinType(description) == [BlankType EXCEPT !.tag = "type", !.name = description]

\* types.ListType(): its `placeholders` property is [self.placeholder] while
\* the element type is the placeholder.
ListType(placeholder) ==
    [BlankType EXCEPT !.tag = "list", !.members = <<placeholder>>,
                      !.placeholders = <<placeholder>>]

\* The value of node.type when the inferer never set it.
NoneType == [BlankType EXCEPT !.tag = "None"]

\* Symbol(name, type, overloadable)
Symbol(name, type, overloadable) ==
    [name |-> name, type |-> type, overloadable |-> overloadable]

\* Scope(parent, symbols)
Scope(parent, symbols) == [parent |-> parent, symbols |-> symbols]

\* `name in self.symbols`
Declares(scope, name) ==
    \E i \in 1..Len(scope.symbols) : scope.symbols[i][1] = name

\* Scope.__getitem__: self.symbols.get(name); <<>> stands for None.
Lookup(scope, name) ==
    IF Declares(scope, name)
    THEN scope.symbols[CHOOSE i \in 1..Len(scope.symbols) :
                           scope.symbols[i][1] = name][2]
    ELSE <<>>

\* Scope.insert: self.symbols[name] = self.symbols.get(name, []) + [symbol]
Insert(scope, name, symbol) ==
    IF Declares(scope, name)
    THEN [scope EXCEPT !.symbols =
             [i \in 1..Len(scope.symbols) |->
                 IF scope.symbols[i][1] = name
                 THEN <<name, Append(scope.symbols[i][2], symbol)>>
                 ELSE scope.symbols[i]]]
    ELSE [scope EXCEPT !.symbols = Append(@, <<name, <<symbol>> >>)]

\* Scope.first(where=lambda s: s.name == name): the first symbol of that name
\* in the order of the dict and of its lists; 0 when there is none.
RECURSIVE AllSymbols(_, _)
AllSymbols(scope, i) ==
    IF i > Len(scope.symbols) THEN <<>>
    ELSE scope.symbols[i][2] \o AllSymbols(scope, i + 1)

First(symbols, scope, name) ==
    LET all == AllSymbols(scope, 1)
        hits == {i \in 1..Len(all) : symbols[all[i]].name = name}
    IN IF hits = {} THEN 0
       ELSE all[CHOOSE i \in hits : \A j \in hits : i <= j]

\* Scope.find_scope_of(name): the scope itself, or the nearest ancestor,
\* whose dict holds the name; 0 when there is none.
RECURSIVE FindScopeOf(_, _, _)
FindScopeOf(scopes, s, name) ==
    IF Declares(scopes[s], name) THEN s
    ELSE IF scopes[s].parent # 0 THEN FindScopeOf(scopes, scopes[s].parent, name)
    ELSE 0

(***************************************************************************)
(* The objects that exist once types.py and symbol.py are imported: the    *)
(* singletons of types.py and the types, symbols and scope of              *)
(* builtin_scope.                                                          *)
(***************************************************************************)
BuiltinTypes ==
    ("Nothing" :> GroundType("Nothing")) @@
    ("Bool" :> GroundType("Bool")) @@
    ("Int" :> GroundType("Int")) @@
    ("Float" :> GroundType("Float")) @@
    ("String" :> GroundType("String")) @@
    ("Element" :> TypePlaceholder("Element")) @@
    ("List" :> ListType("Element")) @@
    ("Object" :> ObjectType(<<>>, <<>>)) @@
    ("alias Object" :> TypeAlias("Object")) @@
    ("alias Bool" :> TypeAlias("Bool")) @@
    ("alias Int" :> TypeAlias("Int")) @@
    ("alias Float" :> TypeAlias("Float")) @@
    ("alias String" :> TypeAlias("String")) @@
    ("alias List" :> TypeAlias("List")) @@
    ("dot" :> BuiltinType("[built-in dot operator]")) @@
    ("exclamation" :> BuiltinType("[built-in exclamation operator]")) @@
    ("getitem domain" :> ObjectType(<< <<"lhs", "List">>, <<"rhs", "Int">> >>, <<>>)) @@
    ("getitem" :> FunctionType("getitem domain", "Element", <<"Element">>)) @@
    ("Int + Int domain" :> ObjectType(<< <<"lhs", "Int">>, <<"rhs", "Int">> >>, <<>>)) @@
    ("Int + Int" :> FunctionType("Int + Int domain", "Int", <<>>)) @@
    ("Float + Float domain" :>
        ObjectType(<< <<"lhs", "Float">>, <<"rhs", "Float">> >>, <<>>)) @@
    ("Float + Float" :> FunctionType("Float + Float domain", "Float", <<>>)) @@
    ("print item" :> ObjectType(<<>>, <<>>)) @@
    ("print domain" :> ObjectType(<< <<"item", "print item">> >>, <<>>)) @@
    ("print" :> FunctionType("print domain", "Nothing", <<>>)) @@
    ("None" :> NoneType)

BuiltinSymbols ==
    << Symbol("Object", "alias Object", FALSE),      \*  1
       Symbol("Bool", "alias Bool", FALSE),          \*  2
       Symbol("Int", "alias Int", FALSE),            \*  3
       Symbol("Float", "alias Float", FALSE),        \*  4
       Symbol("String", "alias String", FALSE),      \*  5
       Symbol("List", "alias List", FALSE),          \*  6
       Symbol(".", "dot", TRUE),                     \*  7  dot_symbol
       Symbol("!", "exclamation", TRUE),             \*  8  exclamation_symbol
       Symbol("!", "getitem", TRUE),                 \*  9  getitem_symbol
       Symbol("+", "Int + Int", TRUE),               \* 10
       Symbol("+", "Float + Float", TRUE),           \* 11
       Symbol("print", "print", TRUE) >>             \* 12

dot_symbol == 7

builtin_scope ==
    Scope(0, << <<"Object", <<1>> >>, <<"Bool", <<2>> >>, <<"Int", <<3>> >>,
                <<"Float", <<4>> >>, <<"String", <<5>> >>, <<"List", <<6>> >>,
                <<".", <<7>> >>, <<"!", <<8, 9>> >>, <<"+", <<10, 11>> >>,
                <<"print", <<12>> >> >>)

(***************************************************************************)
(* The state of the passes, kept in fn while they run:                     *)
(*   module       the declarations of the module                          *)
(*   pass, next   the pass that is running and the index of the next       *)
(*                declaration it visits (0: visit_Module not entered yet)  *)
(*   symbols, scopes   the heaps of Symbol and Scope objects               *)
(*   inner_scope, symbol, scope, type   the attributes set on the nodes    *)
(*   errors       the list `errors` of each pass                           *)
(*   constraints  ConstraintInferer.constraints (indexes into cons)        *)
(*   ranges       the source range of each Constraint object of cons       *)
(* A pass works on the record [f |-> fn, h |-> types, cs |-> cons, exc,    *)
(* msg, error] where exc is the class of an exception that is propagating  *)
(* and error the exception itself when it is one of exc.py.                *)
(***************************************************************************)
Passes == <<"ScopeBuilder", "ScopeBinder", "ConstraintInferer">>

ModulePath == <<>>

\* m[k] = v for a map m from paths
SetAttr(m, k, v) == [x \in DOMAIN m \cup {k} |-> IF x = k THEN v ELSE m[x]]

\* getattr(node, '_attr', None): 0 stands for None.
GetAttr(m, k) == IF k \in DOMAIN m THEN m[k] ELSE 0

SemanticError(exc, name, range) == [exc |-> exc, name |-> name, range |-> range]

\* self.errors.append(error) in the pass that is running
AppendError(st, error) ==
    [st EXCEPT !.f.errors[st.f.pass] = Append(@, error)]

\* A new type object.
Allocate(st, ty) == [st EXCEPT !.h = @ @@ (FreshTypeId(st.h) :> ty)]

\* A new Symbol object; its index is Len(st.f.symbols) + 1.
AllocateSymbol(st, symbol) == [st EXCEPT !.f.symbols = Append(@, symbol)]

\* An exception leaves the visit.
Throw(st, e, m) == [st EXCEPT !.exc = e, !.msg = m]

\* raise exc.<class>(...) for a class of exc.py
ThrowError(st, error) ==
    [st EXCEPT !.exc = error.exc, !.msg = error.name, !.error = error]

Entering(f) ==
    [f |-> f, h |-> types, cs |-> cons, exc |-> "", msg |-> "",
     error |-> SemanticError("", "", <<>>)]

\* What main.py's loop `for pass_ in passes: pass_.visit(module)` keeps of a
\* visit: the objects it changed; an exception that leaves the visit leaves
\* main.py too, since nothing catches it.
Leaving(st) ==
    /\ types' = st.h
    /\ cons' = st.cs
    /\ fn' = [st.f EXCEPT !.next = @ + 1]
    /\ outcome' = IF st.exc = "" THEN outcome ELSE Escaped(st.exc, st.msg)
    /\ UNCHANGED <<solvers, dicts, stack, results>>

\* The pass p is about to visit a declaration of class cls.
Visiting(p, cls) ==
    /\ fn.pass = p
    /\ outcome.status = "running"
    /\ fn.next \in 1..Len(fn.module)
    /\ fn.module[fn.next].cls = cls

(***************************************************************************)
(* ScopeBuilder (scope_builder.py).  self.scopes is [builtin_scope] and,   *)
(* from visit_Module on, the scope of the module on top of it; the scope a *)
(* declaration pushes is popped before its visit returns.  No class of     *)
(* node below a declaration has a visit method in this pass, so the        *)
(* generic_visit of a declaration changes nothing.                         *)
(***************************************************************************)
\* visit_Module, up to its generic_visit.
BuildModule ==
    /\ fn.pass = "ScopeBuilder"
    /\ fn.next = 0
    /\ outcome.status = "running"
    /\ fn' = [fn EXCEPT
                 !.scopes = Append(@, Scope(1, <<>>)),
                 !.inner_scope = SetAttr(@, ModulePath, Len(fn.scopes) + 1),
                 !.next = 1]
    /\ UNCHANGED <<types, cons, solvers, dicts, stack, results, outcome>>

\* The loop `for placeholder in node.placeholders` of both declarations: a
\* TypePlaceholder and a Symbol for each, inserted in the scope.
RECURSIVE InsertPlaceholders(_, _, _, _)
InsertPlaceholders(st, scope, placeholders, i) ==
    IF i > Len(placeholders) THEN st
    ELSE LET ty == FreshTypeId(st.h)
             s1 == Allocate(st, TypePlaceholder(placeholders[i]))
             s2 == AllocateSymbol(s1, Symbol(placeholders[i], ty, FALSE))
             s3 == [s2 EXCEPT !.f.scopes[scope] =
                       Insert(@, placeholders[i], Len(s2.f.symbols))]
         IN InsertPlaceholders(s3, scope, placeholders, i + 1)

\* node.inner_scope = Scope(parent=self.scopes[-1]); self.scopes.append(...)
PushInnerScope(st, path, parent) ==
    [st EXCEPT !.f.scopes = Append(@, Scope(parent, <<>>)),
               !.f.inner_scope = SetAttr(@, path, Len(st.f.scopes) + 1)]

\* ScopeBuilder.visit_FunctionDeclaration(node), in the scope `current`.
BuildFunctionDeclarationOn(st, node, path, current) ==
    LET symbol == First(st.f.symbols, st.f.scopes[current], node.name) IN
    IF symbol # 0 /\ ~st.f.symbols[symbol].overloadable THEN
        AppendError(st, SemanticError("DuplicateDeclaration", node.name, path))
    ELSE
        LET s1 == IF symbol = 0
                  THEN LET ty == FreshTypeId(st.h)
                           a == AllocateSymbol(Allocate(st, TypeVariable),
                                               Symbol(node.name, ty, TRUE))
                       IN [a EXCEPT !.f.scopes[current] =
                              Insert(@, node.name, Len(a.f.symbols))]
                  ELSE st
            mine == IF symbol = 0 THEN Len(s1.f.symbols) ELSE symbol
            s2 == [s1 EXCEPT !.f.symbol = SetAttr(@, path, mine)]
            s3 == PushInnerScope(s2, path, current)
            inner == Len(s3.f.scopes)
            s4 == InsertPlaceholders(s3, inner, node.placeholders, 1)
            argref == FreshTypeId(s4.h)
            s5 == AllocateSymbol(Allocate(s4, TypeVariable),
                                 Symbol("$", argref, FALSE))
        IN [s5 EXCEPT !.f.scopes[inner] = Insert(@, "$", Len(s5.f.symbols))]

\* ScopeBuilder.visit_TypeDeclaration(node), in the scope `current`.
BuildTypeDeclarationOn(st, node, path, current) ==
    LET symbol == First(st.f.symbols, st.f.scopes[current], node.name) IN
    IF symbol # 0 THEN
        AppendError(st, SemanticError("DuplicateDeclaration", node.name, path))
    ELSE
        LET subject == FreshTypeId(st.h)
            s0 == Allocate(st, TypeVariable)
            alias == FreshTypeId(s0.h)
            a == AllocateSymbol(Allocate(s0, TypeAlias(subject)),
                                Symbol(node.name, alias, FALSE))
            s1 == [a EXCEPT !.f.scopes[current] =
                      Insert(@, node.name, Len(a.f.symbols))]
            s2 == [s1 EXCEPT !.f.symbol = SetAttr(@, path, Len(s1.f.symbols))]
            s3 == PushInnerScope(s2, path, current)
        IN InsertPlaceholders(s3, Len(s3.f.scopes), node.placeholders, 1)

BuildFunctionDeclaration ==
    /\ Visiting("ScopeBuilder", "FunctionDeclaration")
    /\ Leaving(BuildFunctionDeclarationOn(Entering(fn), fn.module[fn.next],
                   DeclarationPath(fn.next), fn.inner_scope[ModulePath]))

BuildTypeDeclaration ==
    /\ Visiting("ScopeBuilder", "TypeDeclaration")
    /\ Leaving(BuildTypeDeclarationOn(Entering(fn), fn.module[fn.next],
                   DeclarationPath(fn.next), fn.inner_scope[ModulePath]))

(***************************************************************************)
(* ScopeBinder (scope_binder.py).  self.scopes[-1] is the inner_scope of   *)
(* the declaration being visited, whatever it holds.                       *)
(***************************************************************************)
RECURSIVE BindVisit(_, _, _, _)
RECURSIVE BindKids(_, _, _, _, _)

\* Visitor.generic_visit: the fields of the node that hold nodes, in order.
BindKids(st, node, path, scope, i) ==
    IF i > Len(node.kids) \/ st.exc # "" THEN st
    ELSE BindKids(BindVisit(st, node.kids[i][2], Append(path, node.kids[i][1]),
                            scope),
                  node, path, scope, i + 1)

BindVisit(st, node, path, scope) ==
    IF st.exc # "" THEN st
    ELSE IF node.cls \in {"Identifier", "ArgRef"} /\ scope = 0 THEN
        \* self.scopes[-1] is None
        Throw(st, "AttributeError",
              "'NoneType' object has no attribute 'find_scope_of'")
    ELSE IF node.cls = "Identifier" THEN
        LET found == FindScopeOf(st.f.scopes, scope, node.name) IN
        IF found # 0
        THEN BindKids([st EXCEPT !.f.scope = SetAttr(@, path, found)],
                      node, path, scope, 1)
        ELSE AppendError(st, SemanticError("UnboundName", node.name, path))
    ELSE IF node.cls = "ArgRef" THEN
        LET found == FindScopeOf(st.f.scopes, scope, "$") IN
        IF found = 0
        THEN AppendError(st, SemanticError("UnboundName", "$", path))
        ELSE IF Len(Lookup(st.f.scopes[found], "$")) # 1
        THEN Throw(st, "AssertionError", "")
        ELSE [st EXCEPT !.f.symbol =
                 SetAttr(@, path, Lookup(st.f.scopes[found], "$")[1])]
    ELSE BindKids(st, node, path, scope, 1)

\* visit_FunctionDeclaration and visit_TypeDeclaration: push node.inner_scope,
\* generic_visit, pop.
BindDeclarationOn(st, node, path) ==
    BindKids(st, node, path, GetAttr(st.f.inner_scope, path), 1)

BindFunctionDeclaration ==
    /\ Visiting("ScopeBinder", "FunctionDeclaration")
    /\ Leaving(BindDeclarationOn(Entering(fn), fn.module[fn.next],
                                 DeclarationPath(fn.next)))

BindTypeDeclaration ==
    /\ Visiting("ScopeBinder", "TypeDeclaration")
    /\ Leaving(BindDeclarationOn(Entering(fn), fn.module[fn.next],
                                 DeclarationPath(fn.next)))

(***************************************************************************)
(* ConstraintInferer and _SignatureConstraintInferer                       *)
(* (constraint_inferer.py).                                                *)
(***************************************************************************)
\* node.type: TypedNode.type is None until a pass sets it.
TypeOf(st, path) == IF path \in DOMAIN st.f.type THEN st.f.type[path] ELSE "None"

SetType(st, path, ty) == [st EXCEPT !.f.type = SetAttr(@, path, ty)]

\* node.type = <a new type object>
SetNewType(st, path, ty) == SetType(Allocate(st, ty), path, FreshTypeId(st.h))

\* A new Constraint object with its source range.
NewConstraint(st, c, range) ==
    [st EXCEPT !.cs = Append(@, c), !.f.ranges = Append(@, range)]

\* self.constraints.append(Constraint(...))
Emit(st, c, range) ==
    [st EXCEPT !.cs = Append(@, c), !.f.ranges = Append(@, range),
               !.f.constraints = Append(@, Len(st.cs) + 1)]

\* props[key] = ty on a dict kept as a sequence of <<key, type>>
SetProperty(props, key, ty) ==
    IF \E i \in 1..Len(props) : props[i][1] = key
    THEN [i \in 1..Len(props) |-> IF props[i][1] = key THEN <<key, ty>> ELSE props[i]]
    ELSE Append(props, <<key, ty>>)

\* types.Type.specialized(args): a SpecializedType object.
SpecializedType(ty, args) ==
    [BlankType EXCEPT !.tag = "specialized", !.members = <<ty>>, !.props = args]

\* The exceptions of exc.py a visit of the inferer raises itself.
Caught(st) == st.exc \in SemanticErrors

\* except exc.SemanticError as e: self.errors.append(e); return
Recover(st) ==
    [st EXCEPT !.f.errors[st.f.pass] = Append(@, st.error),
               !.exc = "", !.msg = "", !.error = SemanticError("", "", <<>>)]

\* The state and the dict a loop of a visit has built so far.
Collected(st, props) == [st |-> st, props |-> props]

\* One more entry of the dict: the type the visit left on the node at path.
Collect(st, props, key, path) ==
    Collected(st, SetProperty(props, key, TypeOf(st, path)))

RECURSIVE SigVisit(_, _, _)
RECURSIVE SigProperties(_, _, _, _)
RECURSIVE SigSpecializers(_, _, _, _)

\* The loop over node.properties of _SignatureConstraintInferer.visit_ObjectType,
\* from the i-th property on; r is the state and the dict `properties`.
SigProperties(r, node, path, i) ==
    IF r.st.exc # "" \/ i > Len(node.kids) THEN r
    ELSE IF \E j \in 1..Len(r.props) : r.props[j][1] = node.kids[i][2].name THEN
        Collected(ThrowError(r.st, SemanticError("DuplicateDeclaration",
                      node.kids[i][2].name, Append(path, node.kids[i][1]))),
                  r.props)
    ELSE IF node.kids[i][2].kids = <<>> THEN
        \* no annotation: a fresh variable
        SigProperties(Collected(Allocate(r.st, TypeVariable),
                                SetProperty(r.props, node.kids[i][2].name,
                                            FreshTypeId(r.st.h))),
                      node, path, i + 1)
    ELSE SigProperties(
             Collect(SigVisit(r.st, Kid(node.kids[i][2], "annotation"),
                              path \o <<node.kids[i][1], "annotation">>),
                     r.props, node.kids[i][2].name,
                     path \o <<node.kids[i][1], "annotation">>),
             node, path, i + 1)

\* The loop `for key, child in node.specializers.items()` of both
\* visit_Identifier methods; r is the state and the dict
\* specialization_arguments.
SigSpecializers(r, node, path, i) ==
    IF r.st.exc # "" \/ i > Len(node.specializers) THEN r
    ELSE SigSpecializers(
             Collect(SigVisit(r.st, node.specializers[i][2],
                              path \o <<"specializers", node.specializers[i][1]>>),
                     r.props, node.specializers[i][1],
                     path \o <<"specializers", node.specializers[i][1]>>),
             node, path, i + 1)

\* The end of visit_ObjectType: node.type = types.ObjectType(properties)
SetObjectType(r, path) ==
    IF r.st.exc # "" THEN r.st
    ELSE SetNewType(r.st, path, ObjectType(r.props, <<>>))

\* The end of _SignatureConstraintInferer.visit_Identifier:
\* node.type = node.type.specialized(args=specialization_arguments)
SetSpecializedType(r, path) ==
    IF r.st.exc # "" THEN r.st
    ELSE SetNewType(r.st, path, SpecializedType(TypeOf(r.st, path), r.props))

\* scope[name] of the scope recorded on the identifier; <<>> when there is no
\* scope or no such name.
SymbolsOf(st, node, path) ==
    IF GetAttr(st.f.scope, path) = 0 THEN <<>>
    ELSE Lookup(st.f.scopes[st.f.scope[path]], node.name)

\* The subject of an alias, or the placeholder itself.
Denoted(st, ty) == IF st.h[ty].tag = "alias" THEN st.h[ty].members[1] ELSE ty

SpecializerNames(node) ==
    {node.specializers[i][1] : i \in 1..Len(node.specializers)}

\* _SignatureConstraintInferer.visit(node)
SigVisit(st, node, path) ==
    IF st.exc # "" THEN st
    ELSE IF node.cls = "Nothing" THEN SetType(st, path, "Nothing")
    ELSE IF node.cls = "ObjectType" THEN
        SetObjectType(SigProperties(Collected(st, <<>>), node, path, 1), path)
    ELSE IF node.cls = "Identifier" THEN
        \* Make sure the symbol is bound.
        IF SymbolsOf(st, node, path) = <<>> THEN
            ThrowError(st, SemanticError("UnboundName", node.name, path))
        \* The symbol should not be overloaded, and should be an alias or a
        \* placeholder.
        ELSE IF \/ Len(SymbolsOf(st, node, path)) > 1
                \/ st.h[st.f.symbols[SymbolsOf(st, node, path)[1]].type].tag
                       \notin {"alias", "placeholder"}
        THEN ThrowError(st, SemanticError("SemanticError", node.name, path))
        ELSE IF node.specializers = <<>> THEN
            SetType(st, path,
                    Denoted(st, st.f.symbols[SymbolsOf(st, node, path)[1]].type))
        \* names - set(placeholders): a name is a str and a placeholder a
        \* TypePlaceholder, so every name is extraneous.
        ELSE IF SpecializerNames(node) # {"_0"} THEN
            ThrowError(st, SemanticError("SemanticError", node.name, path))
        ELSE SetSpecializedType(
                 SigSpecializers(
                     Collected(SetType(st, path,
                         Denoted(st, st.f.symbols[SymbolsOf(st, node, path)[1]].type)),
                         <<>>),
                     node, path, 1),
                 path)
    \* generic_visit of a node of another class: nothing below it is typed.
    ELSE st

RECURSIVE InferVisit(_, _, _)
RECURSIVE InferKids(_, _, _, _)
RECURSIVE InferProperties(_, _, _, _)

\* Visitor.generic_visit
InferKids(st, node, path, i) ==
    IF i > Len(node.kids) \/ st.exc # "" THEN st
    ELSE InferKids(InferVisit(st, node.kids[i][2], Append(path, node.kids[i][1])),
                   node, path, i + 1)

\* The loop over node.properties of ConstraintInferer.visit_ObjectLiteral:
\* visit the key, visit the value, props[prop.key.value] = prop.value.type.
InferProperties(r, node, path, i) ==
    IF r.st.exc # "" \/ i > Len(node.kids) THEN r
    ELSE InferProperties(
             Collect(InferVisit(InferVisit(r.st, Kid(node.kids[i][2], "key"),
                                           path \o <<node.kids[i][1], "key">>),
                                Kid(node.kids[i][2], "value"),
                                path \o <<node.kids[i][1], "value">>),
                     r.props, Kid(node.kids[i][2], "key").name,
                     path \o <<node.kids[i][1], "value">>),
             node, path, i + 1)

\* The list of Constraint objects visit_Identifier builds, one per symbol.
RECURSIVE NewChoices(_, _, _, _, _)
NewChoices(st, symbols, lhs, args, range) ==
    IF symbols = <<>> THEN st
    ELSE NewChoices(NewConstraint(st,
                        Specializes(lhs, st.f.symbols[Head(symbols)].type, args),
                        range),
                    Tail(symbols), lhs, args, range)

\* A visit_Identifier that wraps its constraints in a disjunction whatever
\* their number.
ConstrainIdentifierByDisjunction(r, symbols, path) ==
    IF r.st.exc # "" THEN r.st
    ELSE Emit(NewChoices(SetNewType(r.st, path, TypeVariable), symbols,
                         FreshTypeId(r.st.h),
                         {r.props[i][1] : i \in 1..Len(r.props)}, path),
              Disjunction([j \in 1..Len(symbols) |-> Len(r.st.cs) + j]),
              path)

\* The end of ConstraintInferer.visit_Identifier, once the specializers are
\* typed: a fresh variable for the node and one specialization constraint per
\* symbol, alone or as the choices of a disjunction.
ConstrainIdentifier(r, symbols, path) ==
    IF r.st.exc # "" THEN r.st
    ELSE IF Len(symbols) = 1 THEN
        Emit(SetNewType(r.st, path, TypeVariable),
             Specializes(FreshTypeId(r.st.h), r.st.f.symbols[symbols[1]].type,
                         {r.props[i][1] : i \in 1..Len(r.props)}),
             path)
    ELSE Emit(NewChoices(SetNewType(r.st, path, TypeVariable), symbols,
                         FreshTypeId(r.st.h),
                         {r.props[i][1] : i \in 1..Len(r.props)}, path),
              Disjunction([j \in 1..Len(symbols) |-> Len(r.st.cs) + j]),
              path)

\* The dot case of visit_InfixExpression: { right: node.type } must conform to
\* the type of the left operand.
ConstrainProperty(st, node, path) ==
    IF Kid(node, "right").cls # "ScalarLiteral" THEN Throw(st, "AssertionError", "")
    ELSE Emit(Allocate(st, ObjectType(<< <<Kid(node, "right").name,
                                            TypeOf(st, path)>> >>, <<>>)),
              Conforms(FreshTypeId(st.h), TypeOf(st, Append(path, "left"))),
              path)

\* A visit_InfixExpression that emits nothing for the operator: its type
\* would be tied to no operand.
LeaveOperatorFree(st, domain, node, path) == st

\* fn_ty = FunctionType(domain, codomain=node.type) and the constraint that
\* the type of the operator specializes it.
ConstrainOperator(st, domain, node, path) ==
    Emit(Allocate(st, FunctionType(domain, TypeOf(st, path), <<>>)),
         Specializes(TypeOf(st, Append(path, "operator")), FreshTypeId(st.h), {}),
         path)

\* visit_InfixExpression after its generic_visit and `node.type =
\* types.TypeVariable()`.
ConstrainInfixExpression(st, node, path) ==
    IF st.exc # "" THEN st
    \* node.operator.scope[...] when the scope is None
    ELSE IF GetAttr(st.f.scope, Append(path, "operator")) = 0 THEN
        Throw(st, "TypeError", "'NoneType' object is not subscriptable")
    ELSE IF \E i \in 1..Len(SymbolsOf(st, Kid(node, "operator"),
                                      Append(path, "operator"))) :
                SymbolsOf(st, Kid(node, "operator"), Append(path, "operator"))[i]
                    = dot_symbol
    THEN ConstrainProperty(st, node, path)
    ELSE ConstrainOperator(
             Allocate(st, ObjectType(<< <<"lhs", TypeOf(st, Append(path, "left"))>>,
                                        <<"rhs", TypeOf(st, Append(path, "right"))>> >>,
                                     <<>>)),
             FreshTypeId(st.h), node, path)

\* node.type = types.TypeVariable() unless an exception is propagating.
SetVariable(st, path) ==
    IF st.exc # "" THEN st ELSE SetNewType(st, path, TypeVariable)

\* ConstraintInferer.visit(node) for the nodes of an expression.
InferVisit(st, node, path) ==
    IF st.exc # "" THEN st
    ELSE IF node.cls = "ScalarLiteral" THEN
        SetType(st, path,
                CASE node.lit = "bool" -> "Bool"
                  [] node.lit = "int" -> "Int"
                  [] node.lit = "float" -> "Float"
                  [] node.lit = "str" -> "String")
    ELSE IF node.cls = "ArgRef" THEN
        IF GetAttr(st.f.symbol, path) = 0
        THEN Throw(st, "AttributeError", "'NoneType' object has no attribute 'type'")
        ELSE SetType(st, path, st.f.symbols[st.f.symbol[path]].type)
    ELSE IF node.cls = "Identifier" THEN
        \* Skip this node if its scope wasn't created.
        IF SymbolsOf(st, node, path) = <<>> THEN st
        ELSE ConstrainIdentifier(
                 SigSpecializers(Collected(st, <<>>), node, path, 1),
                 SymbolsOf(st, node, path), path)
    ELSE IF node.cls = "ObjectLiteral" THEN
        SetObjectType(InferProperties(Collected(st, <<>>), node, path, 1), path)
    ELSE IF node.cls = "InfixExpression" THEN
        ConstrainInfixExpression(SetVariable(InferKids(st, node, path, 1), path),
                                 node, path)
    ELSE InferKids(st, node, path, 1)

\* The end of visit_FunctionDeclaration: the conformity constraint between
\* the type of the body and the codomain.
ConstrainBody(st, path) ==
    IF st.exc # "" THEN st
    ELSE Emit(st, Conforms(TypeOf(st, Append(path, "body")),
                           TypeOf(st, Append(path, "codomain"))),
              Append(path, "body"))

\* The equality constraints of visit_FunctionDeclaration, for the symbol of
\* the function and for its argument reference.
ConstrainSymbol(st, path) ==
    Emit(st, Equals(st.f.symbols[st.f.symbol[path]].type, TypeOf(st, path)), path)

ConstrainArgRef(st, path) ==
    Emit(st, Equals(st.f.symbols[Lookup(st.f.scopes[st.f.inner_scope[path]],
                                        "$")[1]].type,
                    TypeOf(st, Append(path, "domain"))),
         path)

\* visit_FunctionDeclaration once the signature is typed.
DeclareFunction(st, node, path) ==
    IF Caught(st) THEN Recover(st)
    ELSE IF st.exc # "" THEN st
    \* types.FunctionType(..., node.placeholders): FunctionType.__init__ asserts
    \* that every placeholder is a TypePlaceholder, and these are str.
    ELSE IF node.placeholders # <<>> THEN Throw(st, "AssertionError", "")
    ELSE ConstrainBody(
             InferVisit(
                 ConstrainArgRef(
                     ConstrainSymbol(
                         SetNewType(st, path,
                             FunctionType(TypeOf(st, Append(path, "domain")),
                                          TypeOf(st, Append(path, "codomain")),
                                          <<>>)),
                         path),
                     path),
                 Kid(node, "body"), Append(path, "body")),
             path)

\* ConstraintInferer.visit_FunctionDeclaration(node)
InferFunctionDeclarationOn(st, node, path) ==
    \* Skip this node if its symbol wasn't created.
    IF GetAttr(st.f.symbol, path) = 0 THEN st
    ELSE DeclareFunction(
             SigVisit(SigVisit(st, Kid(node, "domain"), Append(path, "domain")),
                      Kid(node, "codomain"), Append(path, "codomain")),
             node, path)

\* visit_TypeDeclaration once the body is typed.
DeclareType(st, path) ==
    IF Caught(st) THEN Recover(st)
    ELSE IF st.exc # "" THEN st
    ELSE Emit(st, Equals(st.h[st.f.symbols[st.f.symbol[path]].type].members[1],
                         TypeOf(st, Append(path, "body"))),
              path)

\* ConstraintInferer.visit_TypeDeclaration(node)
InferTypeDeclarationOn(st, node, path) ==
    \* assert isinstance(node.symbol.type, types.TypeAlias)
    IF GetAttr(st.f.symbol, path) = 0 THEN
        Throw(st, "AttributeError", "'NoneType' object has no attribute 'type'")
    ELSE DeclareType(SigVisit(st, Kid(node, "body"), Append(path, "body")), path)

InferFunctionDeclaration ==
    /\ Visiting("ConstraintInferer", "FunctionDeclaration")
    /\ Leaving(InferFunctionDeclarationOn(Entering(fn), fn.module[fn.next],
                                          DeclarationPath(fn.next)))

InferTypeDeclaration ==
    /\ Visiting("ConstraintInferer", "TypeDeclaration")
    /\ Leaving(InferTypeDeclarationOn(Entering(fn), fn.module[fn.next],
                                      DeclarationPath(fn.next)))

(***************************************************************************)
(* main.py: the passes in order over a module, then the solver over the    *)
(* constraints of the inferer.                                             *)
(***************************************************************************)
\* The state once main.py has parsed the module and created the passes.
InitialPasses(m) ==
    [module |-> m, pass |-> "ScopeBuilder", next |-> 0,
     symbols |-> BuiltinSymbols, scopes |-> <<builtin_scope>>,
     inner_scope |-> <<>>, symbol |-> <<>>, scope |-> <<>>, type |-> <<>>,
     errors |-> [ScopeBuilder |-> <<>>, ScopeBinder |-> <<>>,
                 ConstraintInferer |-> <<>>],
     constraints |-> <<>>, ranges |-> <<>>]

InitSema ==
    /\ types = BuiltinTypes
    /\ cons = <<>>
    /\ solvers = <<>>
    /\ dicts = <<>>
    /\ stack = <<>>
    /\ results = <<>>
    /\ outcome = NoOutcome
    /\ \E m \in Modules(MaxDeclarations) : fn = InitialPasses(m)

\* `for pass_ in passes`: the visit of one pass has returned, the next begins.
NextPass ==
    /\ fn.pass \in {"ScopeBuilder", "ScopeBinder"}
    /\ outcome.status = "running"
    /\ fn.next > Len(fn.module)
    /\ fn' = [fn EXCEPT !.pass = IF @ = "ScopeBuilder" THEN "ScopeBinder"
                                 ELSE "ConstraintInferer",
                        !.next = 1]
    /\ UNCHANGED <<types, cons, solvers, dicts, stack, results, outcome>>

\* solver = ConstraintSolver(constraints=constraint_inferer.constraints) and
\* the start of the loop over it.
NewConstraintSolver ==
    /\ fn.pass = "ConstraintInferer"
    /\ outcome.status = "running"
    /\ fn.next > Len(fn.module)
    /\ solvers' = <<NewSolver(cons, fn.constraints, 1, 0)>>
    /\ dicts' = <<EmptySolution>>
    /\ stack' = <<1>>
    /\ fn' = [fn EXCEPT !.pass = "ConstraintSolver"]
    /\ UNCHANGED <<types, cons, results, outcome>>

NextSema ==
    \/ BuildModule
    \/ BuildFunctionDeclaration
    \/ BuildTypeDeclaration
    \/ NextPass
    \/ BindFunctionDeclaration
    \/ BindTypeDeclaration
    \/ InferFunctionDeclaration
    \/ InferTypeDeclaration
    \/ NewConstraintSolver
    \/ SolveEquality
    \/ SolveConformity
    \/ SolveSpecialization
    \/ Fork
    \/ Unsolvable
    \/ YieldSolution
    \/ NextSubSystem
    \/ Return

SpecSema == InitSema /\ [][NextSema]_vars

(***************************************************************************)
(* Vocabulary of the properties of the passes.                             *)
(***************************************************************************)
\* The declarations the ScopeBuilder has visited so far.
Built ==
    {i \in 1..Len(fn.module) : fn.pass = "ScopeBuilder" => i < fn.next}

\* The scope of the module, once visit_Module has created it.
ModuleScope == fn.scopes[fn.inner_scope[ModulePath]]

\* The names the declarations of the module declare.
DeclaredNames == {fn.module[i].name : i \in 1..Len(fn.module)}

\* The function declarations of the given name visited so far.
FunctionsNamed(name) ==
    {i \in Built : /\ fn.module[i].cls = "FunctionDeclaration"
                   /\ fn.module[i].name = name}

\* No type declaration of that name has been visited: the name is declared,
\* if at all, by overloadable symbols.
OnlyFunctionsNamed(name) ==
    \A i \in Built : fn.module[i].name = name
                         => fn.module[i].cls = "FunctionDeclaration"

(***************************************************************************)
(* C12: after n function declarations of the same name in the scope of the *)
(* module (the name not being taken by a type), the symbol list of the     *)
(* name in that scope holds n distinct symbols, and each declaration node  *)
(* carries a symbol of its own.                                            *)
(***************************************************************************)
C12_OneSymbolPerOverload ==
    \A name \in DeclaredNames :
        (OnlyFunctionsNamed(name) /\ FunctionsNamed(name) # {}) =>
            LET list == Lookup(ModuleScope, name) IN
            /\ Len(list) = Cardinality(FunctionsNamed(name))
            /\ \A i, j \in 1..Len(list) : i # j => list[i] # list[j]
            /\ \A i, j \in FunctionsNamed(name) :
                   i # j => GetAttr(fn.symbol, DeclarationPath(i))
                                # GetAttr(fn.symbol, DeclarationPath(j))

\* The nodes below a node, itself included, each as <<path, class, name>>;
\* the specializers of an identifier are nodes of the tree too.
RECURSIVE NodesOf(_, _)
NodesOf(node, path) ==
    {<<path, node.cls, node.name>>}
    \cup UNION {NodesOf(node.kids[i][2], Append(path, node.kids[i][1])) :
                   i \in 1..Len(node.kids)}
    \cup UNION {NodesOf(node.specializers[i][2],
                        path \o <<"specializers", node.specializers[i][1]>>) :
                   i \in 1..Len(node.specializers)}

ModuleNodes ==
    UNION {NodesOf(fn.module[i], DeclarationPath(i)) : i \in 1..Len(fn.module)}

\* The passes that have returned.
ScopeBuilderDone == fn.pass # "ScopeBuilder"
ScopeBinderDone == fn.pass \in {"ConstraintInferer", "ConstraintSolver"}
ConstraintInfererDone == fn.pass = "ConstraintSolver"

\* The pass that is running recorded an error of the class for the range.
Recorded(pass, exc, range) ==
    \E i \in 1..Len(fn.errors[pass]) :
        /\ fn.errors[pass][i].exc = exc
        /\ fn.errors[pass][i].range = range

(***************************************************************************)
(* C13: after scope building, in every scope the list of symbols of every  *)
(* name has size 1 unless all the symbols of the list are overloadable,    *)
(* whatever the declarations, repeated placeholder names included.         *)
(***************************************************************************)
C13_OneSymbolUnlessOverloadable ==
    ScopeBuilderDone =>
        \A s \in 1..Len(fn.scopes) : \A k \in 1..Len(fn.scopes[s].symbols) :
            LET list == fn.scopes[s].symbols[k][2] IN
            \/ Len(list) = 1
            \/ \A i \in 1..Len(list) : fn.symbols[list[i]].overloadable

(***************************************************************************)
(* C14: a DuplicateDeclaration recorded by the ScopeBuilder for a          *)
(* declaration stops no pass: no exception leaves the visit of that        *)
(* declaration by the ScopeBuilder, the ScopeBinder or the                 *)
(* ConstraintInferer, so that the passes go on to its siblings.            *)
(***************************************************************************)
C14_DuplicateDoesNotStopThePasses ==
    \A i \in 1..Len(fn.module) :
        (/\ Recorded("ScopeBuilder", "DuplicateDeclaration", DeclarationPath(i))
         /\ fn.pass \in {"ScopeBuilder", "ScopeBinder", "ConstraintInferer"}
         /\ fn.next = i + 1)
            => outcome.status # "raised"

(***************************************************************************)
(* C15: scope completeness.  Once the ScopeBinder has returned, every      *)
(* Identifier of the tree, those inside the specializers of another        *)
(* identifier included, either has an UnboundName recorded for it or       *)
(* carries a scope: the innermost enclosing scope that declares the name,  *)
(* where the list of symbols of the name is not empty.                     *)
(***************************************************************************)
C15_ScopeCompleteness ==
    ScopeBinderDone =>
        \A n \in ModuleNodes :
            n[2] = "Identifier" =>
                \/ Recorded("ScopeBinder", "UnboundName", n[1])
                \/ /\ GetAttr(fn.scope, n[1]) # 0
                   /\ GetAttr(fn.inner_scope, <<n[1][1]>>) # 0
                   /\ fn.scope[n[1]] =
                          FindScopeOf(fn.scopes, fn.inner_scope[<<n[1][1]>>], n[3])
                   /\ Lookup(fn.scopes[fn.scope[n[1]]], n[3]) # <<>>

\* The nodes of the tree that are expressions.
Expressions ==
    {n \in ModuleNodes :
        /\ Len(n[1]) >= 2
        /\ n[1][2] = "body"
        /\ n[2] \in {"ScalarLiteral", "Identifier", "InfixExpression",
                     "ObjectLiteral", "ArgRef"}}

(***************************************************************************)
(* C16: annotation completeness.  Once the ConstraintInferer has returned, *)
(* every expression node has a type that is not None, and no constraint    *)
(* the inferer created has None as its left or right side.                 *)
(***************************************************************************)
C16_AnnotationCompleteness ==
    ConstraintInfererDone =>
        /\ \A n \in Expressions :
               n[1] \in DOMAIN fn.type /\ fn.type[n[1]] # "None"
        /\ \A c \in 1..Len(cons) :
               cons[c].kind # "disjunction" =>
                   cons[c].lhs # "None" /\ cons[c].rhs # "None"

(***************************************************************************)
(* C17: for the module `func h _ -> Int = unknown` the ScopeBinder records *)
(* UnboundName(unknown), and no exception leaves the passes or the solver: *)
(* the inferer returns and the iteration over the solver ends normally.    *)
(***************************************************************************)
C17_UnboundNameDoesNotHalt ==
    fn.module = <<SampleDeclarations[3]>> =>
        /\ ScopeBinderDone =>
               Recorded("ScopeBinder", "UnboundName",
                        Append(DeclarationPath(1), "body"))
        /\ outcome.status # "raised"

(***************************************************************************)
(* Vocabulary of the properties of the results of main.py's loop over the  *)
(* solver.                                                                 *)
(***************************************************************************)
SolutionsYielded == {i \in 1..Len(results) : results[i].kind = "solution"}
ErrorsYielded == {i \in 1..Len(results) : results[i].kind = "error"}

\* The deep walk of a type that is not a variable, an object or a function.
Walked(ty) == [tag |-> "type", id |-> ty]

\* The solution binds the type variable v to the term.
Binds(solution, v, term) == v \in DOMAIN solution /\ solution[v] = term

\* The solution binds v to a function from an object of the given properties.
BindsFunctionOfObject(solution, v, props, cod, phs) ==
    /\ v \in DOMAIN solution
    /\ solution[v].tag = "fun"
    /\ solution[v].dom.tag = "obj"
    /\ solution[v].dom.props = props
    /\ solution[v].cod = cod
    /\ solution[v].placeholders = phs

\* The type of the symbol of the i-th declaration, and the type of a node.
SymbolTypeOf(i) == fn.symbols[fn.symbol[DeclarationPath(i)]].type
BodyPath(i) == Append(DeclarationPath(i), "body")

\* The source range of the constraint whose failure the error reports.
ErrorRange(r) == fn.ranges[solvers[r.by].popped[Len(solvers[r.by].popped)]]

(***************************************************************************)
(* C18: for the module `func f _ -> Int = 1 + 2`, when the loop over the   *)
(* solver has ended, the results hold exactly one solution; it binds the   *)
(* type of the symbol of f to Nothing -> Int, the type of the infix        *)
(* expression to Int and the type of `+` to {lhs: Int, rhs: Int} -> Int;   *)
(* the branch of the Float overload has yielded an error, not a solution.  *)
(***************************************************************************)
C18_OnePlusTwo ==
    (fn.module = <<SampleDeclarations[1]>> /\ fn.pass = "ConstraintSolver") =>
        /\ outcome.status # "raised"
        /\ outcome.status = "done" =>
            /\ Cardinality(SolutionsYielded) = 1
            /\ Cardinality(ErrorsYielded) = 1
            /\ \A i \in SolutionsYielded :
                   /\ Binds(results[i].value, SymbolTypeOf(1),
                            [tag |-> "fun", dom |-> Walked("Nothing"),
                             cod |-> Walked("Int"), placeholders |-> <<>>])
                   /\ Binds(results[i].value, fn.type[BodyPath(1)], Walked("Int"))
                   /\ BindsFunctionOfObject(results[i].value,
                          fn.type[Append(BodyPath(1), "operator")],
                          <<[name |-> "lhs", type |-> Walked("Int")],
                            [name |-> "rhs", type |-> Walked("Int")]>>,
                          Walked("Int"), <<>>)

\* The loop over the solver has ended for `func f _ -> Int = 1 + 2` with one
\* solution among its results.
C18_Witness ==
    /\ fn.module = <<SampleDeclarations[1]>>
    /\ outcome.status = "done"
    /\ Cardinality(SolutionsYielded) = 1
    /\ Len(results) = 2

(***************************************************************************)
(* C19: for the module `func g _ -> Float = 1 + 2.0`, when the loop over   *)
(* the solver has ended, the results hold no solution, and they hold a     *)
(* UnificationError between Int and Float whose source range is that of    *)
(* the infix expression.                                                   *)
(***************************************************************************)
C19_OnePlusTwoDotZero ==
    (fn.module = <<SampleDeclarations[2]>> /\ fn.pass = "ConstraintSolver") =>
        /\ outcome.status # "raised"
        /\ outcome.status = "done" =>
            /\ SolutionsYielded = {}
            /\ \E i \in ErrorsYielded :
                   /\ results[i].exc = "UnificationError"
                   /\ {results[i].args[1], results[i].args[2]}
                          = {Walked("Int"), Walked("Float")}
                   /\ ErrorRange(results[i]) = BodyPath(1)

(***************************************************************************)
(* C20: for the module `func identity[T] {x: T} -> {y: T} = {y = $.x}`,    *)
(* no exception leaves the passes or the solver, and when the loop over    *)
(* the solver has ended the results hold exactly one solution, which binds *)
(* the type of the symbol of identity to a function from {x: T} to {y: T}  *)
(* with the placeholders [T].                                              *)
(***************************************************************************)
C20_GenericIdentity ==
    fn.module = <<SampleDeclarations[4]>> =>
        /\ outcome.status # "raised"
        /\ outcome.status = "done" =>
            /\ Cardinality(SolutionsYielded) = 1
            /\ \A i \in SolutionsYielded :
                   /\ SymbolTypeOf(1) \in DOMAIN results[i].value
                   /\ results[i].value[SymbolTypeOf(1)].tag = "fun"
                   /\ results[i].value[SymbolTypeOf(1)].placeholders = <<"T">>
                   /\ results[i].value[SymbolTypeOf(1)].dom.tag = "obj"
                   /\ results[i].value[SymbolTypeOf(1)].cod.tag = "obj"
                   /\ Len(results[i].value[SymbolTypeOf(1)].dom.props) = 1
                   /\ results[i].value[SymbolTypeOf(1)].dom.props[1].name = "x"
                   /\ Len(results[i].value[SymbolTypeOf(1)].cod.props) = 1
                   /\ results[i].value[SymbolTypeOf(1)].cod.props[1].name = "y"
                   /\ results[i].value[SymbolTypeOf(1)].dom.props[1].type
                          = results[i].value[SymbolTypeOf(1)].cod.props[1].type

(***************************************************************************)
(* Vocabulary of the properties of solve_specialization.                   *)
(***************************************************************************)
\* The names of the placeholders of a type.
PlaceholderNames(h, t) ==
    {h[Placeholders(h, t)[i]].name : i \in 1..Len(Placeholders(h, t))}

\* The results that report superfluous explicit specializations.
Superfluous ==
    {k \in 1..Len(results) :
        /\ results[k].kind = "error"
        /\ results[k].msg = "superfluous explicit specializations"}

\* The constraint whose failure the k-th result reports, and the type its
\* right side resolves to in the solver that reports it.
Reported(k) == cons[Last(solvers[results[k].by].popped)]
ReportedRhs(k) ==
    Walk(types, Sol(results[k].by), Reported(k).rhs, RecursionLimit)

(***************************************************************************)
(* C21: a specialization constraint whose right side resolves to a generic *)
(* type is rejected as 'superfluous explicit specializations' only when    *)
(* some key of its args is not the name of a placeholder of that type; one *)
(* whose keys all name placeholders of the type is accepted.               *)
(***************************************************************************)
C21_SuperfluousOnlyIfUnknownKey ==
    \A k \in Superfluous :
        \E key \in Reported(k).args :
            key \notin PlaceholderNames(types, ReportedRhs(k))

(***************************************************************************)
(* Vocabulary of the properties of conformance on a pair of types.         *)
(***************************************************************************)
\* The concrete types: ground types, function types, placeholders and
\* object types.
Concrete(t) == types[t].tag \in {"ground", "fun", "placeholder", "obj"}

\* solve_conformity has returned normally, without deferring the constraint.
ConformitySucceeded == fn.conf.exc = "" /\ ~fn.conf.defer

(***************************************************************************)
(* C22: Object, the object type without properties, is the top of          *)
(* conformance: for every concrete type T, solving Conforms(T, Object)     *)
(* returns without an error.                                               *)
(***************************************************************************)
C22_ObjectIsTop ==
    (Called(fn.conf) /\ fn.b = "Object" /\ Concrete(fn.a))
        => ConformitySucceeded

\* Conforms({x: Int, y: Float}, Object) has been solved.
C22_Witness ==
    /\ Called(fn.conf)
    /\ fn.b = "Object"
    /\ fn.a = "OXY"
    /\ ConformitySucceeded

\* Two types built alike: the same ground type, or two function types or two
\* object types (the same property names in the same order) whose parts are
\* built alike.  It holds of no type that has a variable, a placeholder or a
\* union among its parts.
RECURSIVE BuiltAlike(_, _, _, _)
BuiltAlike(h, a, b, fuel) ==
    IF fuel = 0 THEN FALSE
    ELSE IF h[a].tag = "ground" THEN a = b
    ELSE IF IsFun(h, a) THEN
        /\ IsFun(h, b)
        /\ BuiltAlike(h, h[a].dom, h[b].dom, fuel - 1)
        /\ BuiltAlike(h, h[a].cod, h[b].cod, fuel - 1)
    ELSE IF IsObj(h, a) THEN
        /\ IsObj(h, b)
        /\ PropNames(h, a) = PropNames(h, b)
        /\ \A i \in 1..ObjLen(h, a) :
               BuiltAlike(h, h[a].props[i][2], h[b].props[i][2], fuel - 1)
    ELSE FALSE

(***************************************************************************)
(* C23: conformance is reflexive.  For a concrete object type T, whose     *)
(* properties are ground types, function types or object types of the same *)
(* kind, solving Conforms(T, T') succeeds when T' is T itself or another   *)
(* object built like T.                                                    *)
(***************************************************************************)
C23_ConformanceReflexive ==
    (/\ Called(fn.conf)
     /\ IsObj(types, fn.a)
     /\ BuiltAlike(types, fn.a, fn.b, RecursionLimit))
        => ConformitySucceeded

\* The last constraint solver s popped is a conformity constraint whose two
\* sides resolve, in the solution of s, to two different concrete types that
\* are not object types: ground types or function types.
Mismatch(s) ==
    /\ solvers[s].popped # <<>>
    /\ cons[Last(solvers[s].popped)].kind = "conforms"
    /\ LET a == Walk(types, Sol(s), cons[Last(solvers[s].popped)].lhs,
                     RecursionLimit)
           b == Walk(types, Sol(s), cons[Last(solvers[s].popped)].rhs,
                     RecursionLimit)
       IN /\ a # Diverged /\ b # Diverged
          /\ types[a].tag \in {"ground", "fun"}
          /\ types[b].tag \in {"ground", "fun"}
          /\ a # b
          /\ ~BuiltAlike(types, a, b, RecursionLimit)

(***************************************************************************)
(* C24: when a solver has solved a conformity constraint whose sides       *)
(* resolve to two different concrete types that are not object types, it   *)
(* has yielded a UnificationError for its branch, and no exception has     *)
(* left the iteration over the results.                                    *)
(***************************************************************************)
C24_MismatchIsUnificationError ==
    \A s \in SolverIds :
        Mismatch(s) =>
            /\ outcome.status # "raised"
            /\ \E k \in ErrorsBy(s) : results[k].exc = "UnificationError"

\* v1 is bound to {next: v1} and v2 to {next: v2}.
CyclicObjects == Bind(Bind(EmptySolution, "v1", "L1"), "v2", "L2")

(***************************************************************************)
(* C25: unify and check_conformance end on cyclic object types.  When v1   *)
(* is bound to {next: v1} and v2 to {next: v2}, unifying the two objects   *)
(* (or the two variables), and solving the conformity of one to the other, *)
(* return after finitely many calls: the recursion does not run until the  *)
(* interpreter stops it with a RecursionError.                             *)
(***************************************************************************)
C25_EndsOnCyclicObjects ==
    (/\ Sol(1) = CyclicObjects
     /\ fn.a \in {"v1", "L1"}
     /\ fn.b \in {"v2", "L2"})
        => /\ fn.fwd.exc # "RecursionError"
           /\ fn.bwd.exc # "RecursionError"
           /\ fn.conf.exc # "RecursionError"

(***************************************************************************)
(* C26: every value of a yielded solution is resolved against the          *)
(* solution: no type variable the solution binds occurs in a value, be it  *)
(* the value itself or inside a function, an object or a union.            *)
(***************************************************************************)
C26_ValuesFullyResolved ==
    \A k \in SolutionsYielded :
        \A v \in DOMAIN results[k].value :
            VarsOfTerm(types, results[k].value[v])
                \cap DOMAIN results[k].value = {}

(***************************************************************************)
(* Vocabulary of the properties of ConstraintInferer.visit_Identifier.     *)
(***************************************************************************)
\* The identifiers among the expressions that the ScopeBinder has bound to a
\* scope, in a function whose signature the inferer has typed (the inferer
\* visits the body of no other function).
BoundIdentifiers ==
    {n \in Expressions :
        /\ n[2] = "Identifier"
        /\ GetAttr(fn.scope, n[1]) # 0
        /\ <<n[1][1]>> \in DOMAIN fn.type}

\* The symbols the scope recorded on the identifier declares for its name.
Candidates(n) == Lookup(fn.scopes[fn.scope[n[1]]], n[3])

\* The constraints of the inferer's list created for the identifier: the
\* specializations and disjunctions that carry its source range.
ConstraintsFor(n) ==
    {i \in 1..Len(fn.constraints) :
        /\ fn.ranges[fn.constraints[i]] = n[1]
        /\ cons[fn.constraints[i]].kind \in {"specializes", "disjunction"}}

\* Constraint c is Specializes(node.type, symbol.type) for the identifier n
\* and the symbol.
SpecializesTo(c, n, symbol) ==
    /\ cons[c].kind = "specializes"
    /\ cons[c].lhs = fn.type[n[1]]
    /\ cons[c].rhs = fn.symbols[symbol].type

(***************************************************************************)
(* C27: for an identifier expression bound to a scope, the scope is the    *)
(* innermost one that declares the name and the candidates are the symbols *)
(* that scope declares for the name, not those of outer scopes; the        *)
(* inferer emits for it one constraint: Specializes(node.type,             *)
(* candidate.type) itself when there is one candidate, and otherwise a     *)
(* disjunction whose choices are these constraints, one per candidate.     *)
(***************************************************************************)
C27_CandidatesOfInnermostScope ==
    ConstraintInfererDone =>
        \A n \in BoundIdentifiers :
            /\ fn.scope[n[1]] =
                   FindScopeOf(fn.scopes, fn.inner_scope[<<n[1][1]>>], n[3])
            /\ n[1] \in DOMAIN fn.type
            /\ Cardinality(ConstraintsFor(n)) = 1
            /\ \A i \in ConstraintsFor(n) :
                   IF Len(Candidates(n)) = 1
                   THEN SpecializesTo(fn.constraints[i], n, Candidates(n)[1])
                   ELSE /\ cons[fn.constraints[i]].kind = "disjunction"
                        /\ Len(cons[fn.constraints[i]].choices)
                               = Len(Candidates(n))
                        /\ \A j \in 1..Len(Candidates(n)) :
                               SpecializesTo(cons[fn.constraints[i]].choices[j],
                                             n, Candidates(n)[j])

\* The inferer has returned on `func print _ -> Int = print` followed by
\* `func f _ -> Int = 1 + 2`: the identifier print is bound to the scope of
\* the module, which declares one symbol for it and hides the builtin one,
\* and `+` to the builtin scope, which declares two.
C27_Witness ==
    /\ fn.module = <<SampleDeclarations[15], SampleDeclarations[1]>>
    /\ ConstraintInfererDone
    /\ <<BodyPath(1), "Identifier", "print">> \in BoundIdentifiers
    /\ fn.scope[BodyPath(1)] = fn.inner_scope[ModulePath]
    /\ Lookup(builtin_scope, "print") # <<>>
    /\ Len(Lookup(fn.scopes[fn.scope[BodyPath(1)]], "print")) = 1
    /\ <<Append(BodyPath(2), "operator"), "Identifier", "+">> \in BoundIdentifiers
    /\ Len(Lookup(fn.scopes[fn.scope[Append(BodyPath(2), "operator")]], "+")) = 2

(***************************************************************************)
(* Vocabulary of the properties of the dot expressions.                    *)
(***************************************************************************)
\* The infix expressions whose operator is the dot, each with the name of
\* the property, which is the value of its right operand: <<path, p>>.
DotExpressions ==
    {<<n[1], r[3]>> : n \in {m \in Expressions : m[2] = "InfixExpression"},
                      r \in {m \in ModuleNodes : m[2] = "ScalarLiteral"}} \cap
    {d \in {<<m[1], r[3]>> : m \in ModuleNodes, r \in ModuleNodes} :
        /\ <<Append(d[1], "operator"), "Identifier", ".">> \in ModuleNodes
        /\ <<Append(d[1], "right"), "ScalarLiteral", d[2]>> \in ModuleNodes}

\* The type the solution gives to the node at the path.
TypeIn(solution, path) == solution[fn.type[path]]

\* The type of the left operand of the dot expression resolves, in the
\* solution, to an object type.
OnAnObject(solution, d) ==
    /\ Append(d[1], "left") \in DOMAIN fn.type
    /\ fn.type[Append(d[1], "left")] \in DOMAIN solution
    /\ TypeIn(solution, Append(d[1], "left")).tag = "obj"

\* The types of the properties of the name in a walked object type.
PropertyTypes(obj, p) ==
    {obj.props[i].type : i \in {j \in 1..Len(obj.props) : obj.props[j].name = p}}

\* The solver has last solved the conformity constraint of the dot
\* expression, whose right side resolves to an object type without the
\* property.
PropertyMissing(s, d) ==
    /\ solvers[s].popped # <<>>
    /\ cons[Last(solvers[s].popped)].kind = "conforms"
    /\ fn.ranges[Last(solvers[s].popped)] = d[1]
    /\ LET b == Walk(types, Sol(s), cons[Last(solvers[s].popped)].rhs,
                     RecursionLimit)
       IN /\ b # Diverged
          /\ types[b].tag = "obj"
          /\ \A i \in 1..Len(types[b].props) : types[b].props[i][1] # d[2]

(***************************************************************************)
(* C28: property access.  For a dot expression e.p where the type of e     *)
(* resolves to an object type: if the object type has a property p of type *)
(* T, every yielded solution gives the type T to the infix node, whatever  *)
(* T, the property-less Object type included; and a solver that has solved *)
(* the constraint of the expression against an object type without the     *)
(* property p has yielded a UnificationError saying that the type does not *)
(* have a property 'p'.                                                    *)
(***************************************************************************)
C28_PropertyAccess ==
    fn.pass = "ConstraintSolver" =>
        \A d \in DotExpressions :
            /\ \A k \in SolutionsYielded :
                   OnAnObject(results[k].value, d) =>
                       \A T \in PropertyTypes(
                                   TypeIn(results[k].value, Append(d[1], "left")),
                                   d[2]) :
                           /\ fn.type[d[1]] \in DOMAIN results[k].value
                           /\ TypeIn(results[k].value, d[1]) = T
            /\ \A s \in SolverIds :
                   PropertyMissing(s, d) =>
                       \E k \in ErrorsBy(s) :
                           /\ results[k].exc = "UnificationError"
                           /\ results[k].msg =
                                  "type does not have a property '" \o d[2] \o "'"

\* Solver i is a branch of a disjunction whose work list has come back to a
\* list it has started an iteration from before.
StuckBranch(i) == IsBranch(i) /\ InLoop(i) /\ Stuck(solvers[i])

(***************************************************************************)
(* C29: when a branch of a disjunction is stuck, 'constraint system appear *)
(* to be unsolvable' is an error item of the results for that branch, as a *)
(* unification error is: no exception leaves the iteration over the        *)
(* results, and when the iteration has ended the branch has yielded the    *)
(* error and each of its siblings has been solved and has yielded its      *)
(* results.                                                                *)
(***************************************************************************)
C29_StuckBranchIsReported ==
    \A i \in SolverIds :
        StuckBranch(i) =>
            /\ outcome.status # "raised"
            /\ outcome.status = "done" =>
                   /\ \E k \in ErrorsBy(i) :
                          results[k].msg = "constraint system appear to be unsolvable"
                   /\ \A j \in Siblings(i) : ResultsBy(j) # {}

(***************************************************************************)
(* Vocabulary of the conservation of constraints.                          *)
(***************************************************************************)
\* The solver and the solvers it descends from.
RECURSIVE Lineage(_)
Lineage(i) ==
    IF solvers[i].parent = 0 THEN {i} ELSE {i} \cup Lineage(solvers[i].parent)

\* The constraints the solvers of a set have taken off their work lists.
PoppedBy(S) ==
    UNION {{solvers[i].popped[k] : k \in 1..Len(solvers[i].popped)} : i \in S}

\* The iteration of solver i goes on, or has ended without a failure: no
\* exception has left the iteration over the results, and i has neither
\* yielded an error nor been ended by an exception.
Unfailed(i) ==
    /\ outcome.status # "raised"
    /\ ErrorsBy(i) = {}
    /\ solvers[i].pc # "stopped"

\* Solver i has solved c: it has taken c off its work list and c is not
\* back on it.
ProcessedBy(i, c) ==
    InSeq(solvers[i].popped, c) /\ ~InSeq(solvers[i].constraints, c)

\* Solver i has forked, and every child was given c.
HandedToEveryChild(i, c) ==
    /\ Children(i) # {}
    /\ \A j \in Children(i) : InSeq(solvers[j].given, c)

\* The disjunctions solver i has taken off its work list.
DisjunctionsOf(i) ==
    {k \in 1..Len(solvers[i].popped) : KindOf(solvers[i].popped[k]) = "disjunction"}

\* The choices of the disjunction that the solvers of a set have solved.
ChoicesTaken(S, d) ==
    {j \in 1..Len(cons[d].choices) : cons[d].choices[j] \in PoppedBy(S)}

=============================================================================
